---- MODULE Spec2Model ----
(***************************************************************************)
(* Extension Trust & Entitlement Engine of the Twitch photo gallery EBS.   *)
(*                                                                         *)
(* The repository ships three server builds that answer the same routes:   *)
(*   "A"  src/unnamed/part_000 with the helpers of src/server/db.js        *)
(*        (db.js + twitch.js: verified JWT, signed receipts, tips table),  *)
(*   "B"  src/server/server.js  (verified JWT, unsigned onReceipt body),   *)
(*   "C"  src/server.js         (jwt.decode only, no channel column).      *)
(* One build runs per behaviour (variable variant).  Time is in seconds.   *)
(* A request handler is one action; the answers of the upstream platform   *)
(* (token endpoint, Helix) are inputs of the action.                       *)
(***************************************************************************)
EXTENDS Integers, Sequences, FiniteSets, TLC

VARIABLES
  variant,      \* which server build is running
  DEV,          \* process.env.DEV_FREEBITS === '1' (read by build B)
  now,          \* Math.floor(Date.now()/1000)
  channels,     \* table channels (A) / channel_tokens (B): one row per channel_id
  photos,       \* table photos: id -> row
  nextPhotoId,  \* AUTOINCREMENT counter of photos
  tips,         \* table tips (A), in insertion order
  comments,     \* table comments, in insertion order
  comment_unlocks, \* table comment_unlocks (db.js), in insertion order
  inflight,     \* the calls of ensureValidChannelToken that await the upstream
  panel,        \* the viewer's panel (frontend/panel.js): its variables, the
                \* Bits transactions it opened, the requests it posted
  handler,      \* a purchase handler between its durable write and its response
  applied,      \* history: how often an effect was applied, per transaction id
                \* (none: effects applied for no transaction at all)
  last          \* history: the last request as received and as answered

vars ==
  <<variant, DEV, now, channels, photos, nextPhotoId, tips, comments, comment_unlocks,
    inflight, panel, handler, applied, last>>

db == <<channels, photos, nextPhotoId, tips, comments, comment_unlocks>>

(***************************************************************************)
(* Bounds of the model                                                     *)
(***************************************************************************)
MaxNow == 60          \* the clock stops advancing here
MaxPhotoId == 5       \* photo rows ever inserted
MaxLedger == 2        \* effects (tips, comments, likes) ever applied

(***************************************************************************)
(* Program constants                                                       *)
(***************************************************************************)
RefreshSkewA == 60    \* A refreshes when expires_at <= now + 60
SafetyMarginB == 30   \* B stores now + expires_in - 30
DefaultTtlB == 3600   \* B: t.expires_in || 3600
SeedCount == 4        \* demo photos inserted by seedPhotos
SliceA == 500         \* A: String(message).slice(0, 500)
SliceC == 500         \* C: String(comment).slice(0, 500)

None == "none"        \* null / undefined / absent
Null == -1            \* SQL NULL or NaN in an integer column
TickStep == 60        \* clock granularity of the model
UpTtl == 90           \* lifetime the platform gives an access token

Broadcasters == {"c1"}            \* broadcasters who run the OAuth connect
UserIds == {"u1", "u2"}
ExtSecret == "EXTENSION_SECRET"
OtherKey == "attacker_key"

Min(a, b) == IF a < b THEN a ELSE b

(***************************************************************************)
(* jsonwebtoken: a compact token is modelled by what verification reads:   *)
(* its well-formedness, header alg, the key that produced the signature,   *)
(* the exp claim and the payload.                                          *)
(***************************************************************************)
NoPayload == [channel_id |-> None, user_id |-> None, role |-> None]

Jwt(alg, key, exp, p) ==
  [form |-> "jwt", alg |-> alg, key |-> key, exp |-> exp, payload |-> p]

Malformed == [form |-> "malformed", alg |-> None, key |-> None, exp |-> Null, payload |-> NoPayload]
Empty == [form |-> "empty", alg |-> None, key |-> None, exp |-> Null, payload |-> NoPayload]

\* jwt.verify(token, secret, { algorithms: ['HS256'] }): TRUE iff it returns
JwtVerify(tok, secret, t) ==
  /\ tok.form = "jwt"
  /\ tok.alg = "HS256"
  /\ tok.key = secret
  /\ (tok.exp = Null \/ t < tok.exp)

\* jwt.decode(token): the payload, whatever the signature
JwtDecode(tok) == IF tok.form = "jwt" THEN tok.payload ELSE NoPayload

(***************************************************************************)
(* Session credentials a client can send                                   *)
(***************************************************************************)
FarExp == 100000
SoonExp == 60

\* the cast: viewers of c1 with and without shared identity, staff of c1 (a
\* moderator also without shared identity) and the broadcaster of c2
Payloads ==
  [channel_id : {"c1"}, user_id : UserIds \cup {None}, role : {"viewer"}]
    \cup [channel_id : {"c1"}, user_id : {"u1"}, role : {"moderator", "broadcaster"}]
    \cup [channel_id : {"c1"}, user_id : {None}, role : {"moderator"}]
    \cup [channel_id : {"c2"}, user_id : {"u1"}, role : {"broadcaster"}]
StaffPayload == [channel_id |-> "c1", user_id |-> "u1", role |-> "broadcaster"]

SessionTokens ==
  {Jwt("HS256", ExtSecret, FarExp, p) : p \in Payloads}
    \cup {Jwt("HS256", ExtSecret, SoonExp, StaffPayload),
          Jwt("HS256", OtherKey, FarExp, StaffPayload),
          Jwt("HS384", ExtSecret, FarExp, StaffPayload),
          Malformed}

\* the Authorization header: absent, or "<scheme> <token>"
NoHeader == [scheme |-> None, token |-> Empty]
Headers ==
  {NoHeader}
    \cup {[scheme |-> "Bearer", token |-> t] : t \in SessionTokens}
    \cup {[scheme |-> "Basic", token |-> Jwt("HS256", ExtSecret, FarExp, StaffPayload)]}

\* what the sender's credential really is, independently of any build
CredClass(h, t) ==
  IF h.scheme = None THEN "absent"
  ELSE IF h.scheme # "Bearer" THEN "scheme"
  ELSE IF h.token.form # "jwt" THEN "malformed"
  ELSE IF h.token.alg # "HS256" THEN "badalg"
  ELSE IF h.token.key # ExtSecret THEN "badsig"
  ELSE IF h.token.exp # Null /\ t >= h.token.exp THEN "expired"
  ELSE "valid"

(***************************************************************************)
(* requireAuth of the three builds                                         *)
(***************************************************************************)
Unauth == [ok |-> FALSE, channel_id |-> None, user_id |-> None, role |-> None]

\* A: auth.replace(/^Bearer\s+/i, ''): any other scheme stays in the string
A_TokenOf(h) ==
  IF h.scheme = None THEN Empty
  ELSE IF h.scheme = "Bearer" THEN h.token
  ELSE Malformed

\* B: parts = bearer.split(' '); parts.length === 2 ? parts[1] : bearer
B_TokenOf(h) == IF h.scheme = None THEN Empty ELSE h.token

\* the verifier without its { algorithms: ['HS256'] } option
A_verifyAnyAlgorithm(tok, t) ==
  /\ tok.form = "jwt"
  /\ tok.key = ExtSecret
  /\ (tok.exp = Null \/ t < tok.exp)

\* twitch.js verifyExtensionJWT
A_verifyExtensionJWT(tok, t) == JwtVerify(tok, ExtSecret, t)

\* server/server.js verifyExtensionJWT
B_verifyExtensionJWT(tok, t) == tok.form # "empty" /\ JwtVerify(tok, ExtSecret, t)

A_requireAuth(h) ==
  LET tok == A_TokenOf(h) IN
  IF tok.form = "empty" \/ ~A_verifyExtensionJWT(tok, now) THEN Unauth
  ELSE [ok |-> TRUE, channel_id |-> tok.payload.channel_id,
        user_id |-> tok.payload.user_id, role |-> tok.payload.role]

B_requireAuth(h) ==
  LET tok == B_TokenOf(h) IN
  IF ~B_verifyExtensionJWT(tok, now) THEN Unauth
  ELSE [ok |-> TRUE, channel_id |-> tok.payload.channel_id,
        user_id |-> tok.payload.user_id,
        role |-> IF tok.payload.role = None THEN "viewer" ELSE tok.payload.role]

\* C: decode(auth): no verification at all
C_decode(h) ==
  IF h.scheme = None THEN NoPayload ELSE JwtDecode(h.token)

\* twitch.role || 'viewer'
RoleOr(r) == IF r = None THEN "viewer" ELSE r

IsStaff(r) == r \in {"broadcaster", "moderator"}

(***************************************************************************)
(* Product SKUs are strings; a string is a sequence of characters.  The    *)
(* alphabet of the modelled SKUs is letters, digits, "_" and "-".          *)
(***************************************************************************)
TIP_ == <<"T", "I", "P", "_">>
TIP_100 == <<"T", "I", "P", "_", "1", "0", "0">>
TIP_500 == <<"T", "I", "P", "_", "5", "0", "0">>
COMMENT_500 == <<"C", "O", "M", "M", "E", "N", "T", "_", "5", "0", "0">>
SUB_1 == <<"S", "U", "B", "_", "1">>
UNKNOWN == <<"U", "N", "K", "N", "O", "W", "N">>
EmptyStr == <<>>

IsDigit(c) == c \in {"0", "1", "2", "3", "4", "5", "6", "7", "8", "9"}

DigitVal(c) ==
  CASE c = "0" -> 0 [] c = "1" -> 1 [] c = "2" -> 2 [] c = "3" -> 3 [] c = "4" -> 4
    [] c = "5" -> 5 [] c = "6" -> 6 [] c = "7" -> 7 [] c = "8" -> 8 [] c = "9" -> 9

RECURSIVE DecimalValue(_)
DecimalValue(s) ==
  IF s = <<>> THEN 0
  ELSE 10 * DecimalValue(SubSeq(s, 1, Len(s) - 1)) + DigitVal(s[Len(s)])

RECURSIVE DigitPrefix(_)
DigitPrefix(s) ==
  IF s = <<>> \/ ~IsDigit(s[1]) THEN <<>>
  ELSE <<s[1]>> \o DigitPrefix(Tail(s))

Drop(s, n) == SubSeq(s, n + 1, Len(s))

\* String.prototype.startsWith
StartsWith(s, p) == Len(s) >= Len(p) /\ SubSeq(s, 1, Len(p)) = p

\* String.prototype.indexOf for one character, 1-based; 0 when absent
IndexOf(s, c) ==
  IF \E i \in 1 .. Len(s) : s[i] = c
  THEN CHOOSE i \in 1 .. Len(s) : s[i] = c /\ \A j \in 1 .. i - 1 : s[j] # c
  ELSE 0

NaN == [nan |-> TRUE, val |-> 0]
Num(v) == [nan |-> FALSE, val |-> v]

\* x || 0 for a number x
OrZero(n) == IF n.nan THEN 0 ELSE n.val

\* parseInt(str, 10): optional sign, then the longest prefix of digits
ParseInt(str) ==
  LET signed == str # <<>> /\ str[1] \in {"-", "+"}
      body == IF signed THEN Tail(str) ELSE str
      ds == DigitPrefix(body)
  IN IF ds = <<>> THEN NaN
     ELSE Num(IF signed /\ str[1] = "-" THEN 0 - DecimalValue(ds) ELSE DecimalValue(ds))

\* Number(str): the whole string must be a numeral; '' is 0
NumberOf(str) ==
  LET signed == str # <<>> /\ str[1] \in {"-", "+"}
      body == IF signed THEN Tail(str) ELSE str
  IN IF str = <<>> THEN Num(0)
     ELSE IF body = <<>> \/ DigitPrefix(body) # body THEN NaN
     ELSE Num(IF signed /\ str[1] = "-" THEN 0 - DecimalValue(body) ELSE DecimalValue(body))

\* sku.split('_')[1]
SplitSecond(s) ==
  LET i == IndexOf(s, "_")
      rest == Drop(s, i)
      j == IndexOf(rest, "_")
  IN IF j = 0 THEN rest ELSE SubSeq(rest, 1, j - 1)

\* part_000: parseInt(sku.split('_')[1], 10) || 0, for a sku that starts with TIP_
A_tipBits(sku) == OrZero(ParseInt(SplitSecond(sku)))

\* server/server.js: Number(sku.replace('TIP_', '')) || 0, for such a sku
B_tipBits(sku) == OrZero(NumberOf(Drop(sku, Len(TIP_))))

\* server.js bitsFromSku: the first run of digits of the string
RECURSIVE bitsFromSku(_)
bitsFromSku(sku) ==
  IF sku = <<>> THEN 0
  ELSE IF IsDigit(sku[1]) THEN DecimalValue(DigitPrefix(sku))
  ELSE bitsFromSku(Tail(sku))

(***************************************************************************)
(* Purchase receipts.  The platform signs, per completed transaction, a    *)
(* JWT whose data names the transaction, the payer and the product.        *)
(***************************************************************************)
TxIds == {"t1", "t2", "t3", "t4", "t5"}

ReceiptData(tx) ==
  CASE tx = "t1" -> [transactionId |-> tx, userId |-> "u1",
                     product |-> [shape |-> "object", sku |-> TIP_500]]
    [] tx = "t2" -> [transactionId |-> tx, userId |-> "u2",
                     product |-> [shape |-> "bare", sku |-> TIP_100]]
    [] tx = "t3" -> [transactionId |-> tx, userId |-> "u1",
                     product |-> [shape |-> "object", sku |-> COMMENT_500]]
    [] tx = "t4" -> [transactionId |-> tx, userId |-> None,
                     product |-> [shape |-> "object", sku |-> TIP_100]]
    [] tx = "t5" -> [transactionId |-> tx, userId |-> "u1",
                     product |-> [shape |-> "object", sku |-> SUB_1]]

NoData == [transactionId |-> None, userId |-> None,
           product |-> [shape |-> "missing", sku |-> EmptyStr]]

Receipt(form, alg, key, data) ==
  [form |-> form, alg |-> alg, key |-> key, exp |-> Null, data |-> data]

NoReceipt == Receipt("empty", None, None, NoData)
BadReceipt == Receipt("malformed", None, None, NoData)
Signed(tx) == Receipt("jwt", "HS256", ExtSecret, ReceiptData(tx))
Forged(tx) == Receipt("jwt", "HS256", OtherKey, ReceiptData(tx))

Receipts ==
  {NoReceipt, BadReceipt} \cup {Signed(tx) : tx \in TxIds}
    \cup {Forged("t1")}

\* what the receipt really is
ReceiptClass(rc) ==
  IF rc.form = "empty" THEN "absent"
  ELSE IF rc.form # "jwt" THEN "malformed"
  ELSE IF rc.alg # "HS256" \/ rc.key # ExtSecret THEN "badsig"
  ELSE "valid"

\* part_000: product.sku, else product itself, else 'UNKNOWN'
A_skuOf(data) ==
  IF data.product.shape \in {"object", "bare"} /\ data.product.sku # EmptyStr
  THEN data.product.sku
  ELSE UNKNOWN

\* the photo ids a request names: none (falsy), the first row, a later row
ReqPhotoIds == {0, 1, 5}

\* comment texts by their length: none, short, longer than any limit
MsgLens == {0, 3, 600}

(***************************************************************************)
(* Requests.  Each route is exercised with a base request and with every   *)
(* variation of one of its parts (header, receipt, photo id, text).        *)
(***************************************************************************)
Bearer(p) == [scheme |-> "Bearer", token |-> Jwt("HS256", ExtSecret, FarExp, p)]
Viewer1 == Bearer([channel_id |-> "c1", user_id |-> "u1", role |-> "viewer"])
Owner1 == Bearer(StaffPayload)

\* POST /api/transactions/complete of build A: { receipt, photoId }
A_TipRequests ==
  {[h |-> h, receipt |-> Signed("t1"), photoId |-> 1] : h \in Headers}
    \cup {[h |-> Viewer1, receipt |-> rc, photoId |-> 1] : rc \in Receipts}
    \cup {[h |-> Viewer1, receipt |-> Signed("t1"), photoId |-> id] : id \in ReqPhotoIds}

\* POST /api/comment_with_purchase of build A: { photoId, message, receipt }
A_CommentRequests ==
  {[h |-> h, receipt |-> Signed("t3"), photoId |-> 1, message |-> 600] : h \in Headers}
    \cup {[h |-> Viewer1, receipt |-> rc, photoId |-> 1, message |-> 600] : rc \in Receipts}
    \cup {[h |-> Viewer1, receipt |-> Signed("t3"), photoId |-> id, message |-> 600] :
             id \in ReqPhotoIds}
    \cup {[h |-> Viewer1, receipt |-> Signed("t3"), photoId |-> 1, message |-> m] :
             m \in MsgLens}

\* what a request body gives for "url": nothing usable, an https URL of an
\* image, an https URL whose HEAD says it is not an image
UrlKinds == {"missing", "https_image", "https_other"}

\* the :id of a path: not a number (Null), the first row, a later row
ParamIds == {Null, 1, 5}

\* the bits a like request states
LikeBits == {-100, 0, 100}

\* bodies of POST /api/transactions/complete of builds B and C:
\* { onReceipt: { sku }, photoId, comment }; no signed receipt travels
SkuBodies == {TIP_500, TIP_100, TIP_, COMMENT_500, SUB_1, EmptyStr}

B_TipRequests ==
  {[h |-> h, json |-> TRUE, sku |-> TIP_500, photoId |-> 1, comment |-> 0] : h \in Headers}
    \cup {[h |-> Viewer1, json |-> FALSE, sku |-> TIP_500, photoId |-> 1, comment |-> 0]}
    \cup {[h |-> Viewer1, json |-> TRUE, sku |-> k, photoId |-> 1, comment |-> 0] :
            k \in SkuBodies}
    \cup {[h |-> Viewer1, json |-> TRUE, sku |-> TIP_500, photoId |-> id, comment |-> 0] :
            id \in ReqPhotoIds}
    \cup {[h |-> Viewer1, json |-> TRUE, sku |-> COMMENT_500, photoId |-> 1, comment |-> m] :
            m \in MsgLens}

\* POST /api/comment_with_purchase of builds B and C: { photoId, comment }
B_CommentRequests ==
  {[h |-> h, json |-> TRUE, photoId |-> 1, comment |-> 600] : h \in Headers}
    \cup {[h |-> Owner1, json |-> j, photoId |-> id, comment |-> m] :
            j \in BOOLEAN, id \in {0, 1}, m \in {0, 600}}

\* POST /api/like: { photoId, bits }
B_LikeRequests ==
  {[h |-> h, json |-> TRUE, photoId |-> 1, bits |-> 100] : h \in Headers}
    \cup {[h |-> Owner1, json |-> FALSE, photoId |-> 1, bits |-> 100]}
    \cup {[h |-> Owner1, json |-> TRUE, photoId |-> id, bits |-> b] :
            id \in ReqPhotoIds, b \in LikeBits}

\* the headers that do not name the other channel: photos are added on c1;
\* the broadcaster of c2 exercises the delete, like and moderation routes
HomeHeaders == {h \in Headers : h.token.payload.channel_id # "c2"}

\* POST /api/admin/photos: { url, title }
B_AddPhotoRequests ==
  {[h |-> h, json |-> TRUE, url |-> "https_image"] : h \in HomeHeaders}
    \cup {[h |-> Owner1, json |-> j, url |-> u] : j \in BOOLEAN, u \in UrlKinds}

\* DELETE /api/admin/photos/:id and DELETE /api/admin/comments/:id
B_DeleteRequests ==
  {[h |-> h, id |-> 1] : h \in Headers}
    \cup {[h |-> Owner1, id |-> id] : id \in ParamIds}

C_TipRequests ==
  {[sku |-> k, photoId |-> 1, comment |-> 0] : k \in SkuBodies}
    \cup {[sku |-> TIP_500, photoId |-> id, comment |-> 0] : id \in ReqPhotoIds}
    \cup {[sku |-> k, photoId |-> 1, comment |-> m] :
            k \in {COMMENT_500, EmptyStr}, m \in MsgLens}

C_CommentRequests ==
  {[h |-> h, photoId |-> 1, comment |-> 600] : h \in Headers}
    \cup {[h |-> Viewer1, photoId |-> id, comment |-> m] : id \in {0, 1}, m \in MsgLens}

C_LikeRequests == [photoId : ReqPhotoIds, bits : LikeBits]

C_AddPhotoRequests ==
  {[h |-> h, url |-> "https_image"] : h \in Headers}
    \cup {[h |-> Owner1, url |-> u] : u \in UrlKinds}

C_DeleteRequests ==
  {[h |-> h, id |-> 1] : h \in Headers}
    \cup {[h |-> Owner1, id |-> id] : id \in ParamIds \cup {0}}

C_UploadRequests ==
  {[h |-> h, file |-> TRUE] : h \in Headers} \cup {[h |-> Owner1, file |-> FALSE]}

(***************************************************************************)
(* The upstream platform                                                   *)
(***************************************************************************)
NoTok == [iat |-> Null, exp |-> Null]

\* answers of POST /oauth2/token (code exchange or refresh).  The access
\* token carries the time the platform stops accepting it.
TokenAnswers ==
  {[ok |-> FALSE, expires_in |-> Null, refresh_token |-> None],
   [ok |-> TRUE, expires_in |-> UpTtl, refresh_token |-> "rt"]}

Issued(t) == [iat |-> t, exp |-> t + UpTtl]

\* the access token of an answer: the platform accepts it for the lifetime
\* the answer announces (UpTtl when the answer announces none)
IssuedBy(tk) ==
  IF tk.expires_in = Null THEN Issued(now)
  ELSE [iat |-> now, exp |-> now + tk.expires_in]

UpstreamAccepts(at, t) == at # NoTok /\ t < at.exp

\* answers of GET helix/subscriptions for a token the platform accepts
HelixAnswers == {"sub", "nosub", "error"}

Helix(at, hx) == IF UpstreamAccepts(at, now) THEN hx ELSE "error"

(***************************************************************************)
(* Delegated token store                                                   *)
(***************************************************************************)
NoRow == [channel_id |-> None, access_token |-> NoTok, refresh_token |-> None,
          expires_at |-> Null]

\* SELECT * FROM <table> WHERE channel_id = ?  (.get(): the first match)
RowIndexes(chans, ch) == {i \in DOMAIN chans : chans[i].channel_id = ch}

HasRow(chans, ch) == RowIndexes(chans, ch) # {}

GetRow(chans, ch) ==
  IF HasRow(chans, ch)
  THEN chans[CHOOSE i \in RowIndexes(chans, ch) : \A j \in RowIndexes(chans, ch) : i <= j]
  ELSE NoRow

\* the UPDATE as two statements of which only the first has run
UpdateRowTorn(chans, ch, access_token, refresh_token, expires_at) ==
  [i \in DOMAIN chans |->
     IF chans[i].channel_id = ch
     THEN [chans[i] EXCEPT !.access_token = access_token,
                           !.refresh_token = refresh_token]
     ELSE chans[i]]

\* UPDATE <table> SET access_token=?, refresh_token=?, expires_at=?
\* WHERE channel_id=?  (one statement: the three columns change together)
UpdateRow(chans, ch, access_token, refresh_token, expires_at) ==
  [i \in DOMAIN chans |->
     IF chans[i].channel_id = ch
     THEN [channel_id |-> ch, access_token |-> access_token,
           refresh_token |-> refresh_token, expires_at |-> expires_at]
     ELSE chans[i]]

\* an INSERT into a table without the key and the conflict clause
InsertWithoutKey(chans, row) == Append(chans, row)

\* INSERT ... ON CONFLICT(channel_id) DO UPDATE SET the three columns;
\* channel_id is the PRIMARY KEY
UpsertRow(chans, row) ==
  IF HasRow(chans, row.channel_id)
  THEN UpdateRow(chans, row.channel_id, row.access_token, row.refresh_token,
                 row.expires_at)
  ELSE Append(chans, row)

\* JavaScript truthiness of an integer column
Truthy(n) == n # Null /\ n # 0

\* twitch.js ensureValidChannelToken: the values bound to the UPDATE
A_refreshedRow(ch, rf) ==
  [channel_id |-> ch, access_token |-> IssuedBy(rf),
   refresh_token |-> rf.refresh_token,
   expires_at |-> IF rf.expires_in = Null THEN Null ELSE now + rf.expires_in]

\* twitch.js ensureValidChannelToken: the table after the UPDATE
A_refreshed(chans, ch, rf) ==
  LET new == A_refreshedRow(ch, rf)
  IN UpdateRow(chans, ch, new.access_token, new.refresh_token, new.expires_at)

\* the early return with twice the refresh margin
A_isFreshTwiceSkew(row) ==
  Truthy(row.expires_at) /\ row.expires_at > now + 2 * RefreshSkewA

\* twitch.js ensureValidChannelToken: the early return of the stored row
A_isFresh(row) == Truthy(row.expires_at) /\ row.expires_at > now + RefreshSkewA

\* twitch.js ensureValidChannelToken.  out: how the credential was obtained
A_ensureValidChannelToken(chans, ch, rf) ==
  IF ~HasRow(chans, ch)
  THEN [has |-> FALSE, row |-> NoRow, chans |-> chans, out |-> "norow", calls |-> 0]
  ELSE
    LET row == GetRow(chans, ch) IN
    IF A_isFresh(row)
    THEN [has |-> TRUE, row |-> row, chans |-> chans, out |-> "fresh", calls |-> 0]
    ELSE IF rf.ok /\ row.refresh_token # None
    THEN
      LET saved == A_refreshed(chans, ch, rf)
      IN [has |-> TRUE, row |-> GetRow(saved, ch), chans |-> saved,
          out |-> "refreshed", calls |-> 1]
    ELSE [has |-> TRUE, row |-> row, chans |-> chans, out |-> "stale", calls |-> 1]

\* server/server.js saveChannelToken: the values bound to the upsert
B_tokenRow(ch, access_token, refresh_token, expires_in) ==
  LET n == IF expires_in = Null THEN 0 ELSE expires_in
  IN [channel_id |-> ch,
      access_token |-> access_token,
      refresh_token |-> refresh_token,
      expires_at |-> now + n - SafetyMarginB]

\* server/server.js saveChannelToken: the table after the upsert
B_saveChannelToken(chans, ch, access_token, refresh_token, expires_in) ==
  UpsertRow(chans, B_tokenRow(ch, access_token, refresh_token, expires_in))

\* server/server.js ensureValidChannelToken: the values it saves after a
\* refresh that began with the row `row`
B_refreshedRow(ch, row, rf) ==
  B_tokenRow(ch, IssuedBy(rf),
             IF rf.refresh_token # None THEN rf.refresh_token
             ELSE row.refresh_token,
             IF Truthy(rf.expires_in) THEN rf.expires_in ELSE DefaultTtlB)

B_refreshed(chans, ch, row, rf) == UpsertRow(chans, B_refreshedRow(ch, row, rf))

\* server/server.js ensureValidChannelToken: the early return
B_isFresh(row) == row # NoRow /\ row.access_token # NoTok /\ row.expires_at > now

\* server/server.js ensureValidChannelToken.  has = FALSE: it threw
B_ensureValidChannelToken(chans, ch, rf) ==
  LET exists == HasRow(chans, ch)
      row == GetRow(chans, ch)
  IN
  IF exists /\ B_isFresh(row)
  THEN [has |-> TRUE, row |-> row, chans |-> chans, out |-> "fresh", calls |-> 0]
  ELSE IF exists /\ row.refresh_token # None
  THEN
    IF rf.ok
    THEN
      LET saved == B_refreshed(chans, ch, row, rf)
      IN [has |-> TRUE, row |-> GetRow(saved, ch), chans |-> saved, out |-> "refreshed", calls |-> 1]
    ELSE [has |-> FALSE, row |-> NoRow, chans |-> chans, out |-> "refreshfail", calls |-> 1]
  ELSE [has |-> FALSE, row |-> NoRow, chans |-> chans,
        out |-> IF exists THEN "norefresh" ELSE "norow", calls |-> 0]

\* twitch.js isSubscriber: never throws
A_isSubscriber(ch, rf, hx) ==
  LET e == A_ensureValidChannelToken(channels, ch, rf) IN
  IF ~e.has \/ e.row.access_token = NoTok
  THEN [threw |-> FALSE, sub |-> FALSE, chans |-> e.chans, cred |-> e.out, lookup |-> "none"]
  ELSE
    LET h == Helix(e.row.access_token, hx) IN
    [threw |-> FALSE, sub |-> (h = "sub"), chans |-> e.chans, cred |-> e.out, lookup |-> h]

\* server/server.js isSubscriber: throws when the store or Helix throws
B_isSubscriber(ch, rf, hx) ==
  LET e == B_ensureValidChannelToken(channels, ch, rf) IN
  IF ~e.has
  THEN [threw |-> TRUE, sub |-> FALSE, chans |-> e.chans, cred |-> e.out, lookup |-> "none"]
  ELSE
    LET h == Helix(e.row.access_token, hx) IN
    [threw |-> (h = "error"), sub |-> (h = "sub"), chans |-> e.chans,
     cred |-> e.out, lookup |-> h]

\* every way the upstream platform can answer one entitlement check
A_SubscriberChecks(ch) ==
  {A_isSubscriber(ch, rf, hx) : rf \in TokenAnswers, hx \in HelixAnswers}

B_SubscriberChecks(ch) ==
  {B_isSubscriber(ch, rf, hx) : rf \in TokenAnswers, hx \in HelixAnswers}

(***************************************************************************)
(* Tables                                                                  *)
(***************************************************************************)
PhotoRow(ch) == [channel_id |-> ch, tip_bits_total |-> 0, likes_count |-> 0]

PhotosOf(ch) == {id \in DOMAIN photos : photos[id].channel_id = ch}

InsertPhotos(tbl, first, n, ch) ==
  [id \in DOMAIN tbl \cup (first .. first + n - 1) |->
     IF id \in DOMAIN tbl THEN tbl[id] ELSE PhotoRow(ch)]

\* the tip without its UPDATE photos
A_AddNoTip(tbl, id, ch, bits) == tbl

\* UPDATE photos SET tip_bits_total = tip_bits_total + ? WHERE id=? AND channel_id=?
A_AddTip(tbl, id, ch, bits) ==
  IF id \in DOMAIN tbl /\ tbl[id].channel_id = ch
  THEN [tbl EXCEPT ![id].tip_bits_total = @ + bits]
  ELSE tbl

TipRow(ch, pid, user, bits) ==
  [channel_id |-> ch, photo_id |-> pid, user_id |-> user, bits |-> bits]

CommentRow(ch, pid, user, len) ==
  [channel_id |-> ch, photo_id |-> pid, user_id |-> user, len |-> len, hidden |-> FALSE]

\* UPDATE comments SET hidden=? WHERE id=? AND channel_id=?
SetHidden(tbl, id, ch, hidden) ==
  [i \in DOMAIN tbl |->
     IF i = id /\ tbl[i].channel_id = ch THEN [tbl[i] EXCEPT !.hidden = hidden]
     ELSE tbl[i]]

\* purchases and free actions applied so far, per transaction (None: applied
\* for no transaction at all); the model stops applying at MaxLedger
RECURSIVE SumApplied(_)
SumApplied(ts) ==
  IF ts = {} THEN 0
  ELSE LET t == CHOOSE x \in ts : TRUE
       IN applied[t] + SumApplied(ts \ {t})

Recorded == SumApplied(DOMAIN applied)

\* UPDATE photos SET likes_count = likes_count + 1, tip_bits_total =
\* tip_bits_total + ? WHERE id = ? AND channel_id = ?
B_AddLike(tbl, id, ch, inc) ==
  IF id \in DOMAIN tbl /\ tbl[id].channel_id = ch
  THEN [tbl EXCEPT ![id].tip_bits_total = @ + inc, ![id].likes_count = @ + 1]
  ELSE tbl

\* server.js: the same UPDATE ... WHERE id = ?
C_AddLike(tbl, id, inc) ==
  IF id \in DOMAIN tbl
  THEN [tbl EXCEPT ![id].tip_bits_total = @ + inc, ![id].likes_count = @ + 1]
  ELSE tbl

\* DELETE FROM photos WHERE id = ? AND channel_id = ?
B_DeletePhoto(tbl, id, ch) ==
  [i \in {j \in DOMAIN tbl : ~(j = id /\ tbl[j].channel_id = ch)} |-> tbl[i]]

\* DELETE FROM photos WHERE id = ?
C_DeletePhoto(tbl, id) == [i \in DOMAIN tbl \ {id} |-> tbl[i]]

\* UPDATE comments SET hidden=1 WHERE photo_id = ? AND channel_id = ?
HideOfPhoto(tbl, pid, ch) ==
  [i \in DOMAIN tbl |->
     IF tbl[i].photo_id = pid /\ tbl[i].channel_id = ch THEN [tbl[i] EXCEPT !.hidden = TRUE]
     ELSE tbl[i]]

\* DELETE FROM comments WHERE photo_id = ?
RECURSIVE DeleteOfPhoto(_, _)
DeleteOfPhoto(tbl, pid) ==
  IF tbl = <<>> THEN <<>>
  ELSE IF Head(tbl).photo_id = pid THEN DeleteOfPhoto(Tail(tbl), pid)
  ELSE <<Head(tbl)>> \o DeleteOfPhoto(Tail(tbl), pid)

\* db.js seedPhotos: the number of rows it inserts
SeedRows(ch) == IF PhotosOf(ch) = {} THEN SeedCount ELSE 0

(***************************************************************************)
(* The last request and its answer                                         *)
(***************************************************************************)
NoReq ==
  [route |-> "none", cred |-> "absent", channel |-> None, user |-> None, role |-> None,
   status |-> 0, granted |-> FALSE, store |-> "none", lookup |-> "none",
   receipt |-> "none", payer |-> None, tx |-> None, photoId |-> 0,
   product |-> "none", text |-> FALSE, pub |-> "none", chat |-> FALSE,
   announce |-> "none", body |-> "plain"]

Req(route, h) ==
  [NoReq EXCEPT !.route = route, !.cred = CredClass(h, now),
                !.channel = h.token.payload.channel_id,
                !.user = h.token.payload.user_id,
                !.role = h.token.payload.role]

Answer(r, status, granted) == [r EXCEPT !.status = status, !.granted = granted]

Upstream(r, s) == [r EXCEPT !.store = s.cred, !.lookup = s.lookup]

\* what a SKU string names: a tip, the paid comment, another product, nothing
ProductClass(sku) ==
  IF sku = EmptyStr THEN "none"
  ELSE IF StartsWith(sku, TIP_) THEN "tip"
  ELSE IF sku = COMMENT_500 THEN "comment"
  ELSE "other"

\* the request carried receipt rc for photo pid
WithReceipt(r, rc, pid) ==
  [r EXCEPT !.receipt = ReceiptClass(rc), !.payer = rc.data.userId,
            !.tx = rc.data.transactionId, !.photoId = pid,
            !.product = ProductClass(rc.data.product.sku)]

\* the request carried a comment text of length m
WithText(r, m) == [r EXCEPT !.text = (m # 0)]

\* the request body named product sku (onReceipt.sku)
WithSku(r, sku) == [r EXCEPT !.product = ProductClass(sku)]

\* the request carried no receipt, only a body that names photo pid
WithBody(r, pid) == [r EXCEPT !.receipt = "absent", !.photoId = pid]

\* the handler published ev on the channel's broadcast topic and tried (or not)
\* to announce in chat
Effects(r, ev, chat) == [r EXCEPT !.pub = ev, !.chat = chat]

\* what the response body carries besides fixed text: the message of the
\* caught error, the decoded receipt, the platform's token answer
Body(r, b) == [r EXCEPT !.body = b]

\* how the chat announcement ended: sent, or failed (logged and dropped)
Announced(r, n) == [r EXCEPT !.announce = n.announce]

\* two requests may be inside ensureValidChannelToken at once
Callers == {"r1", "r2"}

\* a call of ensureValidChannelToken.  pc: idle, refreshing (awaiting the
\* answer of refreshToken), done (it returned or threw).  read: the row the
\* first SELECT gave; expired: that row was not valid any more; has / ret:
\* what the caller got (has = FALSE: null or a throw); wrote: the values
\* bound to the write; at: the time of the return
NotCalling ==
  [pc |-> "idle", channel |-> None, read |-> NoRow, expired |-> FALSE,
   has |-> FALSE, ret |-> NoRow, out |-> "none", calls |-> 0, wrote |-> NoRow,
   at |-> 0]

\* the panel before the browser has run the script
NoPanel ==
  [version |-> None, currentPhoto |-> Null, pendingCommentMessage |-> FALSE,
   pending |-> [sku |-> None, photoId |-> Null, comment |-> FALSE],
   listeners |-> 0, purchases |-> <<>>, posting |-> <<>>, reports |-> <<>>]

\* no purchase request is being handled
NoHandler ==
  [pc |-> "idle", route |-> None, channel |-> None, user |-> None,
   publish |-> None, waits |-> None, wrote |-> FALSE, status |-> 0]

Init ==
  /\ variant \in {"A", "B", "C"}
  /\ DEV \in BOOLEAN
  /\ (variant # "B" => DEV = FALSE)
  /\ now = 0
  /\ channels = <<>>
  /\ photos = <<>>
  /\ nextPhotoId = 1
  /\ tips = <<>>
  /\ comments = <<>>
  /\ comment_unlocks = <<>>
  /\ inflight = [c \in Callers |-> NotCalling]
  /\ panel = NoPanel
  /\ handler = NoHandler
  /\ applied = [t \in TxIds \cup {None} |-> 0]
  /\ last = NoReq

\* the server takes the next request when the last one has been answered
Idle == last.route = "none"

\* res.json(...) / res.send(...) has left: the exchange is over
Respond ==
  /\ ~Idle
  /\ last' = NoReq
  /\ UNCHANGED <<variant, DEV, panel, handler, comment_unlocks, inflight, now, channels, photos, nextPhotoId, tips, comments, applied>>

\* the clock
Tick ==
  /\ Idle
  /\ now < MaxNow
  /\ now' = now + TickStep
  /\ UNCHANGED <<variant, DEV, panel, handler, comment_unlocks, inflight, channels, photos, nextPhotoId, tips, comments, applied, last>>

(***************************************************************************)
(* GET /auth/callback                                                      *)
(***************************************************************************)
\* part_000: exchange the code, look the broadcaster up, upsert, seed
A_AuthCallbackWith(answers) ==
  /\ variant = "A" /\ Idle
  /\ \E tk \in answers, u \in Broadcasters \cup {None} :
       LET r == [NoReq EXCEPT !.route = "auth_callback"] IN
       IF ~tk.ok \/ u = None
       THEN /\ last' = Body(Answer(r, 500, FALSE), "error_message")
            /\ UNCHANGED <<channels, photos, nextPhotoId>>
       ELSE
         LET row == [channel_id |-> u,
                     access_token |-> IssuedBy(tk),
                     refresh_token |-> tk.refresh_token,
                     expires_at |-> IF tk.expires_in = Null THEN Null
                                    ELSE now + tk.expires_in]
             n == SeedRows(u)
         IN /\ nextPhotoId + n - 1 <= MaxPhotoId
            /\ channels' = UpsertRow(channels, row)
            /\ photos' = InsertPhotos(photos, nextPhotoId, n, u)
            /\ nextPhotoId' = nextPhotoId + n
            /\ last' = Answer(r, 200, FALSE)
  /\ UNCHANGED <<variant, DEV, panel, handler, comment_unlocks, inflight, now, tips, comments, applied>>

A_AuthCallback == A_AuthCallbackWith(TokenAnswers)

\* server/server.js
B_AuthCallbackWith(answers) ==
  /\ variant = "B" /\ Idle
  /\ \E code \in BOOLEAN, tk \in answers, u \in Broadcasters \cup {None} :
       LET r == [NoReq EXCEPT !.route = "auth_callback"] IN
       IF ~code
       THEN /\ last' = Answer(r, 400, FALSE)
            /\ UNCHANGED <<channels, photos, nextPhotoId>>
       ELSE IF ~tk.ok \/ u = None
       THEN /\ last' = Body(Answer(r, 500, FALSE), "error_message")
            /\ UNCHANGED <<channels, photos, nextPhotoId>>
       ELSE
         LET n == SeedRows(u) IN
         /\ nextPhotoId + n - 1 <= MaxPhotoId
         /\ channels' = B_saveChannelToken(channels, u, IssuedBy(tk), tk.refresh_token,
                          IF Truthy(tk.expires_in) THEN tk.expires_in ELSE DefaultTtlB)
         /\ photos' = InsertPhotos(photos, nextPhotoId, n, u)
         /\ nextPhotoId' = nextPhotoId + n
         /\ last' = Answer(r, 200, FALSE)
  /\ UNCHANGED <<variant, DEV, panel, handler, comment_unlocks, inflight, now, tips, comments, applied>>

B_AuthCallback == B_AuthCallbackWith(TokenAnswers)

(***************************************************************************)
(* GET /api/status                                                         *)
(***************************************************************************)
A_Status ==
  /\ variant = "A" /\ Idle
  /\ \E h \in Headers :
       LET a == A_requireAuth(h)
           r == Req("status", h)
       IN
       IF ~a.ok
       THEN /\ last' = Answer(r, 401, FALSE)
            /\ UNCHANGED channels
       ELSE IF a.user_id = None
       THEN /\ last' = Answer(r, 200, FALSE)
            /\ UNCHANGED channels
       ELSE
         \E s \in A_SubscriberChecks(a.channel_id) :
         /\ channels' = s.chans
         /\ last' = Answer(Upstream(r, s), 200, s.sub)
  /\ UNCHANGED <<variant, DEV, panel, handler, comment_unlocks, inflight, now, photos, nextPhotoId, tips, comments, applied>>

B_Status ==
  /\ variant = "B" /\ Idle
  /\ \E h \in Headers :
       LET a == B_requireAuth(h)
           r == Req("status", h)
       IN
       IF ~a.ok
       THEN /\ last' = Answer(r, 401, FALSE)
            /\ UNCHANGED channels
       ELSE IF IsStaff(RoleOr(a.role))
       THEN /\ last' = Answer(r, 200, TRUE)
            /\ UNCHANGED channels
       ELSE IF a.user_id = None
       THEN /\ last' = Answer(r, 200, FALSE)
            /\ UNCHANGED channels
       ELSE
         \E s \in B_SubscriberChecks(a.channel_id) :
         /\ channels' = s.chans
         /\ last' = Answer(Upstream(r, s), 200, ~s.threw /\ s.sub)
  /\ UNCHANGED <<variant, DEV, panel, handler, comment_unlocks, inflight, now, photos, nextPhotoId, tips, comments, applied>>

C_Status ==
  /\ variant = "C" /\ Idle
  /\ \E h \in Headers :
       LET a == C_decode(h) IN
       last' = Answer(Req("status", h), 200, IsStaff(RoleOr(a.role)))
  /\ UNCHANGED <<variant, DEV, panel, handler, comment_unlocks, inflight, now, channels, photos, nextPhotoId, tips, comments, applied>>

(***************************************************************************)
(* GET /api/photos                                                         *)
(***************************************************************************)
A_Photos ==
  /\ variant = "A" /\ Idle
  /\ \E h \in Headers :
       LET a == A_requireAuth(h)
           r == Req("photos", h)
       IN
       IF ~a.ok
       THEN /\ last' = Answer(r, 401, FALSE)
            /\ UNCHANGED channels
       ELSE IF a.user_id = None
       THEN /\ last' = Answer(r, 403, FALSE)
            /\ UNCHANGED channels
       ELSE
         \E s \in A_SubscriberChecks(a.channel_id) :
         /\ channels' = s.chans
         /\ last' = IF s.sub THEN Answer(Upstream(r, s), 200, TRUE)
                    ELSE Answer(Upstream(r, s), 403, FALSE)
  /\ UNCHANGED <<variant, DEV, panel, handler, comment_unlocks, inflight, now, photos, nextPhotoId, tips, comments, applied>>

B_Photos ==
  /\ variant = "B" /\ Idle
  /\ \E h \in Headers :
       LET a == B_requireAuth(h)
           r == Req("photos", h)
       IN
       IF ~a.ok
       THEN /\ last' = Answer(r, 401, FALSE)
            /\ UNCHANGED channels
       ELSE IF IsStaff(RoleOr(a.role))
       THEN /\ last' = Answer(r, 200, TRUE)
            /\ UNCHANGED channels
       ELSE IF a.user_id = None
       THEN /\ last' = Answer(r, 403, FALSE)
            /\ UNCHANGED channels
       ELSE
         \E s \in B_SubscriberChecks(a.channel_id) :
         /\ channels' = s.chans
         /\ last' = IF ~s.threw /\ s.sub THEN Answer(Upstream(r, s), 200, TRUE)
                    ELSE Answer(Upstream(r, s), 403, FALSE)
  /\ UNCHANGED <<variant, DEV, panel, handler, comment_unlocks, inflight, now, photos, nextPhotoId, tips, comments, applied>>

C_Photos ==
  /\ variant = "C" /\ Idle
  /\ \E h \in Headers :
       last' = Answer(Req("photos", h), 200, TRUE)
  /\ UNCHANGED <<variant, DEV, panel, handler, comment_unlocks, inflight, now, channels, photos, nextPhotoId, tips, comments, applied>>

(***************************************************************************)
(* Build A: purchases and moderation (part_000)                            *)
(***************************************************************************)
\* jwt.verify(receipt, Buffer.from(EXTENSION_SECRET_B64, 'base64'), HS256)
A_verifyReceipt(rc, t) == JwtVerify(rc, ExtSecret, t)

\* the best-effort chat announcement after a tip: refresh the delegated
\* credential, look the tipper up, send.  chat: sendChatMessage was called;
\* announce: the message was sent, or a step failed (getUserById threw into
\* the catch, or sendChatMessage logged a send error)
A_Announce(ch) ==
  {LET called == ~(e.has /\ e.row.access_token # NoTok
                     /\ Helix(e.row.access_token, gu) = "error")
   IN [chans |-> e.chans, store |-> e.out, chat |-> called,
       announce |-> IF called /\ cs = "ok" THEN "sent" ELSE "failed"] :
     e \in {A_ensureValidChannelToken(channels, ch, rf) : rf \in TokenAnswers},
     gu \in {"ok", "error"}, cs \in {"ok", "error"}}

\* what can happen between the INSERT INTO tips and the UPDATE photos, two
\* statements outside any transaction: nothing, the UPDATE throws (the catch
\* answers 400), the process dies (no answer)
Interruptions == {"none", "throw", "crash"}

\* POST /api/transactions/complete
A_TransactionsComplete ==
  /\ variant = "A" /\ Idle
  /\ \E q \in A_TipRequests :
       LET a == A_requireAuth(q.h)
           r == WithReceipt(Req("transactions_complete", q.h), q.receipt, q.photoId)
           userId == q.receipt.data.userId
           sku == A_skuOf(q.receipt.data)
       IN
       IF ~a.ok
       THEN /\ last' = Answer(r, 401, FALSE)
            /\ UNCHANGED <<channels, photos, tips, applied>>
       ELSE IF ~A_verifyReceipt(q.receipt, now) \/ userId = None
                 \/ ~StartsWith(sku, TIP_) \/ q.photoId = 0
       THEN \* bad_receipt, no_user_in_receipt, missing_photoId, or
            \* { error: 'unknown_sku', sku, decoded }
            /\ last' = IF A_verifyReceipt(q.receipt, now) /\ userId # None
                          /\ ~StartsWith(sku, TIP_)
                       THEN Body(Answer(r, 400, FALSE), "receipt")
                       ELSE Answer(r, 400, FALSE)
            /\ UNCHANGED <<channels, photos, tips, applied>>
       ELSE
         LET bits == A_tipBits(sku) IN
         /\ Recorded < MaxLedger
         /\ tips' = Append(tips, TipRow(a.channel_id, q.photoId, userId, bits))
         /\ applied' = [applied EXCEPT ![q.receipt.data.transactionId] = @ + 1]
         /\ \E stop \in Interruptions :
              IF stop = "none"
              THEN /\ photos' = A_AddTip(photos, q.photoId, a.channel_id, bits)
                   /\ \E n \in A_Announce(a.channel_id) :
                        /\ channels' = n.chans
                        /\ last' = Announced(
                                     Effects(Answer([r EXCEPT !.store = n.store], 200, TRUE),
                                             "tip_update", n.chat), n)
              ELSE \* the INSERT has run, the UPDATE has not
                   /\ UNCHANGED <<photos, channels>>
                   /\ last' = Answer(r, IF stop = "throw" THEN 400 ELSE 0, FALSE)
  /\ UNCHANGED <<variant, DEV, panel, handler, comment_unlocks, inflight, now, nextPhotoId, comments>>

\* POST /api/comment_with_purchase
A_CommentWithPurchase ==
  /\ variant = "A" /\ Idle
  /\ \E q \in A_CommentRequests :
       LET a == A_requireAuth(q.h)
           r == WithText(WithReceipt(Req("comment_with_purchase", q.h), q.receipt, q.photoId),
                         q.message)
           receiptUserId == q.receipt.data.userId
           sku == A_skuOf(q.receipt.data)
       IN
       IF ~a.ok
       THEN /\ last' = Answer(r, 401, FALSE)
            /\ UNCHANGED <<comments, applied>>
       ELSE IF a.user_id = None
       THEN /\ last' = Answer(r, 403, FALSE)
            /\ UNCHANGED <<comments, applied>>
       ELSE IF \/ q.photoId = 0 \/ q.message = 0 \/ q.receipt.form = "empty"
               \/ ~A_verifyReceipt(q.receipt, now)
               \/ receiptUserId = None \/ receiptUserId # a.user_id
               \/ sku # COMMENT_500
       THEN /\ last' = Answer(r, 400, FALSE)
            /\ UNCHANGED <<comments, applied>>
       ELSE
         /\ Recorded < MaxLedger
         /\ comments' = Append(comments,
               CommentRow(a.channel_id, q.photoId, a.user_id, Min(q.message, SliceA)))
         /\ applied' = [applied EXCEPT ![q.receipt.data.transactionId] = @ + 1]
         /\ last' = Effects(Answer(r, 200, TRUE), "new_comment", FALSE)
  /\ UNCHANGED <<variant, DEV, panel, handler, comment_unlocks, inflight, now, channels, photos, nextPhotoId, tips>>

\* PATCH /api/comment/:id
A_PatchComment ==
  /\ variant = "A" /\ Idle
  /\ \E h \in Headers :
       LET a == A_requireAuth(h)
           r == Req("patch_comment", h)
       IN
       IF ~a.ok
       THEN /\ last' = Answer(r, 401, FALSE)
            /\ UNCHANGED comments
       ELSE IF a.role # "broadcaster"
       THEN /\ last' = Answer(r, 403, FALSE)
            /\ UNCHANGED comments
       ELSE
         \E id \in 1 .. MaxLedger, hidden \in BOOLEAN :
           /\ comments' = SetHidden(comments, id, a.channel_id, hidden)
           /\ last' = Answer(r, 200, TRUE)
  /\ UNCHANGED <<variant, DEV, panel, handler, comment_unlocks, inflight, now, channels, photos, nextPhotoId, tips, applied>>

\* GET /api/comments
A_Comments ==
  /\ variant = "A" /\ Idle
  /\ \E h \in Headers :
       LET a == A_requireAuth(h) IN
       last' = IF a.ok THEN Answer(Req("comments", h), 200, TRUE)
               ELSE Answer(Req("comments", h), 401, FALSE)
  /\ UNCHANGED <<variant, DEV, panel, handler, comment_unlocks, inflight, now, channels, photos, nextPhotoId, tips, comments, applied>>

NextA ==
  \/ A_AuthCallback \/ A_Status \/ A_Photos \/ A_Comments
  \/ A_CommentWithPurchase \/ A_PatchComment \/ A_TransactionsComplete

(***************************************************************************)
(* Build B: purchases, likes and administration (server/server.js)         *)
(***************************************************************************)
\* req.is('application/json')
B_requireJson(q) == q.json

\* the best-effort chat announcement: ensureValidChannelToken, getUserById
\* (its failure is swallowed), sendChatMessage, which asks for the credential
\* again; any throw is caught.  chat: the message was handed to Helix;
\* announce: Helix took it, or a step threw into the catch
B_Announce(ch) ==
  {LET e1 == B_ensureValidChannelToken(channels, ch, rf1)
       e2 == B_ensureValidChannelToken(e1.chans, ch, rf2)
   IN IF ~e1.has
      THEN [chans |-> e1.chans, store |-> e1.out, chat |-> FALSE,
            announce |-> "failed"]
      ELSE [chans |-> e2.chans, store |-> e1.out, chat |-> e2.has,
            announce |-> IF e2.has /\ cs = "ok" THEN "sent" ELSE "failed"] :
     rf1 \in TokenAnswers, rf2 \in TokenAnswers, cs \in {"ok", "error"}}

\* POST /api/transactions/complete
B_TransactionsComplete ==
  /\ variant = "B" /\ Idle
  /\ \E q \in B_TipRequests :
       LET a == B_requireAuth(q.h)
           r == WithText(WithSku(WithBody(Req("transactions_complete", q.h), q.photoId),
                                 q.sku), q.comment)
       IN
       IF ~a.ok
       THEN /\ last' = Answer(r, 401, FALSE)
            /\ UNCHANGED <<channels, photos, applied>>
       ELSE IF ~B_requireJson(q)
       THEN /\ last' = Answer(r, 415, FALSE)
            /\ UNCHANGED <<channels, photos, applied>>
       ELSE IF q.sku = EmptyStr
       THEN /\ last' = Answer(r, 400, FALSE)
            /\ UNCHANGED <<channels, photos, applied>>
       ELSE IF StartsWith(q.sku, TIP_)
       THEN
         LET bits == B_tipBits(q.sku)
             upd == IF q.photoId # 0
                    THEN B_AddLike(photos, q.photoId, a.channel_id, bits)
                    ELSE photos
         IN
         /\ (upd # photos => Recorded < MaxLedger)
         /\ photos' = upd
         /\ applied' = IF upd # photos THEN [applied EXCEPT ![None] = @ + 1] ELSE applied
         /\ \E n \in B_Announce(a.channel_id) :
              /\ channels' = n.chans
              /\ last' = Announced(
                           Effects(Answer([r EXCEPT !.store = n.store], 200, upd # photos),
                                   "none", n.chat), n)
       ELSE IF q.sku = COMMENT_500
       THEN \* INSERT INTO comments (channel_id, photo_id, user_id, display_name,
            \* message): created_at is NOT NULL without default in db.js, the
            \* statement throws and the handler's catch answers 500
            /\ last' = IF q.photoId = 0 \/ q.comment = 0 THEN Answer(r, 400, FALSE)
                       ELSE Answer(r, 500, FALSE)
            /\ UNCHANGED <<channels, photos, applied>>
       ELSE /\ last' = Answer(r, 400, FALSE)
            /\ UNCHANGED <<channels, photos, applied>>
  /\ UNCHANGED <<variant, DEV, panel, handler, comment_unlocks, inflight, now, nextPhotoId, tips, comments>>

\* POST /api/comment_with_purchase.  The same INSERT without created_at throws
\* inside the async handler, which has no catch: no response is written
\* (status 0) and no row is stored
B_CommentWithPurchase ==
  /\ variant = "B" /\ Idle
  /\ \E q \in B_CommentRequests :
       LET a == B_requireAuth(q.h)
           r == WithText(WithBody(Req("comment_with_purchase", q.h), q.photoId), q.comment)
       IN
       last' = IF ~a.ok THEN Answer(r, 401, FALSE)
               ELSE IF ~B_requireJson(q) THEN Answer(r, 415, FALSE)
               ELSE IF ~DEV /\ ~IsStaff(RoleOr(a.role)) THEN Answer(r, 403, FALSE)
               ELSE IF q.photoId = 0 \/ q.comment = 0 THEN Answer(r, 400, FALSE)
               ELSE Answer(r, 0, FALSE)
  /\ UNCHANGED <<variant, DEV, panel, handler, comment_unlocks, inflight, now, channels, photos, nextPhotoId, tips, comments, applied>>

\* POST /api/like
B_Like ==
  /\ variant = "B" /\ Idle
  /\ \E q \in B_LikeRequests :
       LET a == B_requireAuth(q.h)
           r == WithBody(Req("like", q.h), q.photoId)
       IN
       IF ~a.ok
       THEN /\ last' = Answer(r, 401, FALSE)
            /\ UNCHANGED <<channels, photos, applied>>
       ELSE IF ~B_requireJson(q)
       THEN /\ last' = Answer(r, 415, FALSE)
            /\ UNCHANGED <<channels, photos, applied>>
       ELSE IF ~DEV /\ ~IsStaff(RoleOr(a.role))
       THEN /\ last' = Answer(r, 403, FALSE)
            /\ UNCHANGED <<channels, photos, applied>>
       ELSE IF q.photoId = 0
       THEN /\ last' = Answer(r, 400, FALSE)
            /\ UNCHANGED <<channels, photos, applied>>
       ELSE
         LET upd == B_AddLike(photos, q.photoId, a.channel_id, q.bits) IN
         /\ (upd # photos => Recorded < MaxLedger)
         /\ photos' = upd
         /\ applied' = IF upd # photos THEN [applied EXCEPT ![None] = @ + 1] ELSE applied
         /\ \E n \in B_Announce(a.channel_id) :
              /\ channels' = n.chans
              /\ last' = Announced(
                           Effects(Answer([r EXCEPT !.store = n.store], 200, upd # photos),
                                   "none", n.chat), n)
  /\ UNCHANGED <<variant, DEV, panel, handler, comment_unlocks, inflight, now, nextPhotoId, tips, comments>>

\* requireBroadcaster
B_requireBroadcaster(a) == IsStaff(RoleOr(a.role))

\* POST /api/admin/photos
B_AdminAddPhoto ==
  /\ variant = "B" /\ Idle
  /\ \E q \in B_AddPhotoRequests :
       LET a == B_requireAuth(q.h)
           r == Req("admin_add_photo", q.h)
       IN
       IF ~a.ok \/ ~B_requireJson(q) \/ ~B_requireBroadcaster(a) \/ q.url # "https_image"
       THEN /\ last' = Answer(r, IF ~a.ok THEN 401
                                 ELSE IF ~B_requireJson(q) THEN 415
                                 ELSE IF ~B_requireBroadcaster(a) THEN 403
                                 ELSE 400, FALSE)
            /\ UNCHANGED <<photos, nextPhotoId>>
       ELSE /\ nextPhotoId <= MaxPhotoId
            /\ photos' = InsertPhotos(photos, nextPhotoId, 1, a.channel_id)
            /\ nextPhotoId' = nextPhotoId + 1
            /\ last' = Answer(r, 200, TRUE)
  /\ UNCHANGED <<variant, DEV, panel, handler, comment_unlocks, inflight, now, channels, tips, comments, applied>>

\* DELETE /api/admin/photos/:id
B_AdminDeletePhoto ==
  /\ variant = "B" /\ Idle
  /\ \E q \in B_DeleteRequests :
       LET a == B_requireAuth(q.h)
           r == [Req("admin_delete_photo", q.h) EXCEPT !.photoId = q.id]
       IN
       IF ~a.ok \/ ~B_requireBroadcaster(a) \/ q.id = Null
       THEN /\ last' = Answer(r, IF ~a.ok THEN 401
                                 ELSE IF ~B_requireBroadcaster(a) THEN 403
                                 ELSE 400, FALSE)
            /\ UNCHANGED <<photos, comments>>
       ELSE /\ photos' = B_DeletePhoto(photos, q.id, a.channel_id)
            /\ comments' = HideOfPhoto(comments, q.id, a.channel_id)
            /\ last' = Answer(r, 200, TRUE)
  /\ UNCHANGED <<variant, DEV, panel, handler, comment_unlocks, inflight, now, channels, nextPhotoId, tips, applied>>

\* GET /api/comments
B_Comments ==
  /\ variant = "B" /\ Idle
  /\ \E h \in Headers :
       LET a == B_requireAuth(h)
           r == Req("comments", h)
       IN
       last' = IF ~a.ok THEN Answer(r, 401, FALSE)
               ELSE IF ~B_requireBroadcaster(a) THEN Answer(r, 403, FALSE)
               ELSE Answer(r, 200, TRUE)
  /\ UNCHANGED <<variant, DEV, panel, handler, comment_unlocks, inflight, now, channels, photos, nextPhotoId, tips, comments, applied>>

\* DELETE /api/admin/comments/:id
B_AdminDeleteComment ==
  /\ variant = "B" /\ Idle
  /\ \E q \in B_DeleteRequests :
       LET a == B_requireAuth(q.h)
           r == Req("admin_delete_comment", q.h)
       IN
       IF ~a.ok \/ ~B_requireBroadcaster(a) \/ q.id = Null
       THEN /\ last' = Answer(r, IF ~a.ok THEN 401
                                 ELSE IF ~B_requireBroadcaster(a) THEN 403
                                 ELSE 400, FALSE)
            /\ UNCHANGED comments
       ELSE /\ comments' = SetHidden(comments, q.id, a.channel_id, TRUE)
            /\ last' = Answer(r, 200, TRUE)
  /\ UNCHANGED <<variant, DEV, panel, handler, comment_unlocks, inflight, now, channels, photos, nextPhotoId, tips, applied>>

NextB ==
  \/ B_AuthCallback \/ B_Status \/ B_Photos \/ B_Comments
  \/ B_TransactionsComplete \/ B_CommentWithPurchase \/ B_Like
  \/ B_AdminAddPhoto \/ B_AdminDeletePhoto \/ B_AdminDeleteComment

(***************************************************************************)
(* Build C: server.js                                                      *)
(***************************************************************************)
\* a.role || "viewer", then ["broadcaster","moderator"].includes(role)
C_isAdmin(h) == IsStaff(RoleOr(C_decode(h).role))

\* INSERT INTO comments(photo_id, username, message, bits)
C_CommentRow(pid, user, len) ==
  [channel_id |-> None, photo_id |-> pid, user_id |-> user, len |-> len, hidden |-> FALSE]

\* POST /api/admin/photos
C_AdminAddPhoto ==
  /\ variant = "C" /\ Idle
  /\ \E q \in C_AddPhotoRequests :
       LET r == Req("admin_add_photo", q.h) IN
       IF ~C_isAdmin(q.h)
       THEN /\ last' = Answer(r, 403, FALSE)
            /\ UNCHANGED <<photos, nextPhotoId>>
       ELSE IF q.url = "missing"
       THEN /\ last' = Answer(r, 400, FALSE)
            /\ UNCHANGED <<photos, nextPhotoId>>
       ELSE /\ nextPhotoId <= MaxPhotoId
            /\ photos' = InsertPhotos(photos, nextPhotoId, 1, None)
            /\ nextPhotoId' = nextPhotoId + 1
            /\ last' = Answer(r, 200, TRUE)
  /\ UNCHANGED <<variant, DEV, panel, handler, comment_unlocks, inflight, now, channels, tips, comments, applied>>

\* POST /api/admin/upload
C_Upload ==
  /\ variant = "C" /\ Idle
  /\ \E q \in C_UploadRequests :
       LET r == Req("admin_upload", q.h) IN
       IF ~C_isAdmin(q.h)
       THEN /\ last' = Answer(r, 403, FALSE)
            /\ UNCHANGED <<photos, nextPhotoId>>
       ELSE IF ~q.file
       THEN /\ last' = Answer(r, 400, FALSE)
            /\ UNCHANGED <<photos, nextPhotoId>>
       ELSE /\ nextPhotoId <= MaxPhotoId
            /\ photos' = InsertPhotos(photos, nextPhotoId, 1, None)
            /\ nextPhotoId' = nextPhotoId + 1
            /\ last' = Answer(r, 200, TRUE)
  /\ UNCHANGED <<variant, DEV, panel, handler, comment_unlocks, inflight, now, channels, tips, comments, applied>>

\* DELETE /api/admin/photos/:id
C_AdminDeletePhoto ==
  /\ variant = "C" /\ Idle
  /\ \E q \in C_DeleteRequests :
       LET r == [Req("admin_delete_photo", q.h) EXCEPT !.photoId = q.id] IN
       IF ~C_isAdmin(q.h)
       THEN /\ last' = Answer(r, 403, FALSE)
            /\ UNCHANGED <<photos, comments>>
       ELSE IF q.id = Null \/ q.id = 0
       THEN /\ last' = Answer(r, 400, FALSE)
            /\ UNCHANGED <<photos, comments>>
       ELSE /\ photos' = C_DeletePhoto(photos, q.id)
            /\ comments' = DeleteOfPhoto(comments, q.id)
            /\ last' = Answer(r, 200, TRUE)
  /\ UNCHANGED <<variant, DEV, panel, handler, comment_unlocks, inflight, now, channels, nextPhotoId, tips, applied>>

\* POST /api/like
C_Like ==
  /\ variant = "C" /\ Idle
  /\ \E q \in C_LikeRequests :
       LET r == WithBody(Req("like", NoHeader), q.photoId)
           upd == C_AddLike(photos, q.photoId, q.bits)
       IN
       IF q.photoId = 0
       THEN /\ last' = Answer(r, 400, FALSE)
            /\ UNCHANGED <<photos, applied>>
       ELSE IF upd = photos
       THEN /\ last' = Answer(r, 404, FALSE)
            /\ UNCHANGED <<photos, applied>>
       ELSE /\ Recorded < MaxLedger
            /\ photos' = upd
            /\ applied' = [applied EXCEPT ![None] = @ + 1]
            /\ last' = Answer(r, 200, TRUE)
  /\ UNCHANGED <<variant, DEV, panel, handler, comment_unlocks, inflight, now, channels, nextPhotoId, tips, comments>>

\* POST /api/comment_with_purchase
C_CommentWithPurchase ==
  /\ variant = "C" /\ Idle
  /\ \E q \in C_CommentRequests :
       LET a == C_decode(q.h)
           user == IF a.user_id = None THEN "viewer" ELSE a.user_id
           r == WithText(WithBody(Req("comment_with_purchase", q.h), q.photoId), q.comment)
       IN
       IF q.photoId = 0 \/ q.comment = 0
       THEN /\ last' = Answer(r, 400, FALSE)
            /\ UNCHANGED <<comments, applied>>
       ELSE /\ Recorded < MaxLedger
            /\ comments' = Append(comments,
                              C_CommentRow(q.photoId, user, Min(q.comment, SliceC)))
            /\ applied' = [applied EXCEPT ![None] = @ + 1]
            /\ last' = Answer(r, 200, TRUE)
  /\ UNCHANGED <<variant, DEV, panel, handler, comment_unlocks, inflight, now, channels, photos, nextPhotoId, tips>>

\* POST /api/transactions/complete
C_TransactionsComplete ==
  /\ variant = "C" /\ Idle
  /\ \E q \in C_TipRequests :
       LET r == WithText(WithSku(WithBody(Req("transactions_complete", NoHeader),
                                     q.photoId), q.sku), q.comment)
           bits == bitsFromSku(q.sku)
           upd == C_AddLike(photos, q.photoId, bits)
       IN
       IF q.photoId = 0
       THEN /\ last' = Answer(r, 400, FALSE)
            /\ UNCHANGED <<photos, comments, applied>>
       ELSE /\ (upd # photos \/ q.comment # 0) => Recorded < MaxLedger
            /\ photos' = upd
            /\ comments' = IF q.comment # 0
                           THEN Append(comments,
                                  C_CommentRow(q.photoId, "viewer", Min(q.comment, SliceC)))
                           ELSE comments
            /\ applied' = IF upd # photos \/ q.comment # 0
                          THEN [applied EXCEPT ![None] = @ + 1] ELSE applied
            /\ last' = Answer(r, 200, upd # photos \/ q.comment # 0)
  /\ UNCHANGED <<variant, DEV, panel, handler, comment_unlocks, inflight, now, channels, nextPhotoId, tips>>

\* GET /auth/callback: the token answer is shown to the browser, nothing is stored
C_AuthCallback ==
  /\ variant = "C" /\ Idle
  /\ \E code \in BOOLEAN, tk \in TokenAnswers :
       LET r == [NoReq EXCEPT !.route = "auth_callback"] IN
       \* the page prints JSON.stringify(tokenJson), whatever the exchange gave
       last' = IF ~code THEN Answer(r, 400, FALSE)
               ELSE Body(Answer(r, 200, FALSE),
                         IF tk.ok THEN "tokens" ELSE "error_message")
  /\ UNCHANGED <<variant, DEV, panel, handler, comment_unlocks, inflight, now, channels, photos, nextPhotoId, tips, comments, applied>>

NextC ==
  \/ C_AuthCallback \/ C_Status \/ C_Photos
  \/ C_AdminAddPhoto \/ C_Upload \/ C_AdminDeletePhoto
  \/ C_Like \/ C_CommentWithPurchase \/ C_TransactionsComplete

Next ==
  \/ Tick \/ Respond
  \/ NextA
  \/ NextB
  \/ NextC

Spec == Init /\ [][Next]_vars

(***************************************************************************)
(* The delegated token store on its own: authorizations and calls of       *)
(* ensureValidChannelToken, one step per await, under every answer the     *)
(* platform can give                                                       *)
(***************************************************************************)
TokStep == 30
MaxTokNow == 90

\* lifetimes an answer can announce: none, zero, short, UpTtl
WideTtls == {Null, 0, 20, UpTtl}

RejectedAnswer == [ok |-> FALSE, expires_in |-> Null, refresh_token |-> None]

A_TokenAnswers ==
  {RejectedAnswer} \cup
  {[ok |-> TRUE, expires_in |-> e, refresh_token |-> r] :
     e \in WideTtls, r \in {"rt", "rt2"}}

\* saveChannelToken accepts an answer without a refresh token
B_TokenAnswers ==
  A_TokenAnswers \cup
  {[ok |-> TRUE, expires_in |-> e, refresh_token |-> None] : e \in WideTtls}

\* c2 never authorizes
TokChannels == Broadcasters \cup {"c2"}

\* the stored row is not valid any more (a NULL expiry promises nothing)
Expired(row) == ~(row.expires_at # Null /\ now < row.expires_at)

Returned(ch, read, expired, has, ret, out, calls, wrote) ==
  [pc |-> "done", channel |-> ch, read |-> read, expired |-> expired,
   has |-> has, ret |-> ret, out |-> out, calls |-> calls, wrote |-> wrote,
   at |-> now]

Awaiting(ch, read) ==
  [NotCalling EXCEPT !.pc = "refreshing", !.channel = ch, !.read = read,
                     !.expired = Expired(read)]

\* a return is observed before anything else happens
Quiet == Idle /\ \A c \in Callers : inflight[c].pc # "done"

TokInit == Init /\ variant \in {"A", "B"} /\ ~DEV

TokTick ==
  /\ Quiet
  /\ now + TokStep <= MaxTokNow
  /\ now' = now + TokStep
  /\ UNCHANGED <<variant, DEV, panel, handler, comment_unlocks, inflight, channels, photos, nextPhotoId, tips, comments, applied, last>>

A_Authorize == Quiet /\ A_AuthCallbackWith(A_TokenAnswers)

B_Authorize == Quiet /\ B_AuthCallbackWith(B_TokenAnswers)

\* twitch.js ensureValidChannelToken up to its first await
A_EnsureBegin ==
  /\ variant = "A" /\ Quiet
  /\ \E c \in Callers, ch \in TokChannels :
       /\ inflight[c].pc = "idle"
       /\ LET row == GetRow(channels, ch) IN
          inflight' = [inflight EXCEPT ![c] =
            IF ~HasRow(channels, ch)
            THEN Returned(ch, NoRow, FALSE, FALSE, NoRow, "norow", 0, NoRow)
            ELSE IF A_isFresh(row)
            THEN Returned(ch, row, Expired(row), TRUE, row, "fresh", 0, NoRow)
            ELSE Awaiting(ch, row)]
  /\ UNCHANGED <<variant, DEV, panel, handler, comment_unlocks, now, channels, photos, nextPhotoId, tips, comments, applied, last>>

\* twitch.js ensureValidChannelToken from the answer of refreshToken on
A_EnsureEnd ==
  /\ variant = "A" /\ Quiet
  /\ \E c \in Callers, rf \in A_TokenAnswers :
       /\ inflight[c].pc = "refreshing"
       /\ LET ch == inflight[c].channel
              read == inflight[c].read
          IN IF rf.ok /\ read.refresh_token # None
             THEN /\ channels' = A_refreshed(channels, ch, rf)
                  /\ inflight' = [inflight EXCEPT ![c] =
                       Returned(ch, read, inflight[c].expired, TRUE,
                                GetRow(channels', ch), "refreshed", 1,
                                A_refreshedRow(ch, rf))]
             ELSE /\ channels' = channels
                  /\ inflight' = [inflight EXCEPT ![c] =
                       Returned(ch, read, inflight[c].expired, TRUE, read,
                                "stale", 1, NoRow)]
  /\ UNCHANGED <<variant, DEV, panel, handler, comment_unlocks, now, photos, nextPhotoId, tips, comments, applied, last>>

\* server/server.js ensureValidChannelToken up to its first await
B_EnsureBegin ==
  /\ variant = "B" /\ Quiet
  /\ \E c \in Callers, ch \in TokChannels :
       /\ inflight[c].pc = "idle"
       /\ LET row == GetRow(channels, ch) IN
          inflight' = [inflight EXCEPT ![c] =
            IF HasRow(channels, ch) /\ B_isFresh(row)
            THEN Returned(ch, row, Expired(row), TRUE, row, "fresh", 0, NoRow)
            ELSE IF HasRow(channels, ch) /\ row.refresh_token # None
            THEN Awaiting(ch, row)
            ELSE Returned(ch, row, HasRow(channels, ch) /\ Expired(row), FALSE, NoRow,
                          IF HasRow(channels, ch) THEN "norefresh" ELSE "norow",
                          0, NoRow)]
  /\ UNCHANGED <<variant, DEV, panel, handler, comment_unlocks, now, channels, photos, nextPhotoId, tips, comments, applied, last>>

\* server/server.js ensureValidChannelToken from the answer of refreshToken on
B_EnsureEnd ==
  /\ variant = "B" /\ Quiet
  /\ \E c \in Callers, rf \in B_TokenAnswers :
       /\ inflight[c].pc = "refreshing"
       /\ LET ch == inflight[c].channel
              read == inflight[c].read
          IN IF rf.ok
             THEN /\ channels' = B_refreshed(channels, ch, read, rf)
                  /\ inflight' = [inflight EXCEPT ![c] =
                       Returned(ch, read, inflight[c].expired, TRUE,
                                GetRow(channels', ch), "refreshed", 1,
                                B_refreshedRow(ch, read, rf))]
             ELSE /\ channels' = channels
                  /\ inflight' = [inflight EXCEPT ![c] =
                       Returned(ch, read, inflight[c].expired, FALSE, NoRow,
                                "refreshfail", 1, NoRow)]
  /\ UNCHANGED <<variant, DEV, panel, handler, comment_unlocks, now, photos, nextPhotoId, tips, comments, applied, last>>

\* the caller has taken the result
EnsureReturn ==
  /\ \E c \in Callers :
       /\ inflight[c].pc = "done"
       /\ inflight' = [inflight EXCEPT ![c] = NotCalling]
  /\ UNCHANGED <<variant, DEV, panel, handler, comment_unlocks, now, channels, photos, nextPhotoId, tips, comments, applied, last>>

TokNext ==
  \/ TokTick \/ Respond
  \/ A_Authorize \/ A_EnsureBegin \/ A_EnsureEnd
  \/ B_Authorize \/ B_EnsureBegin \/ B_EnsureEnd
  \/ EnsureReturn

SpecTok == TokInit /\ [][TokNext]_vars

(***************************************************************************)
(* The viewer's panel (frontend/panel.js).  The file holds two scripts:    *)
(* the first ("v1") posts receipts to the routes of part_000, the second   *)
(* ("v2") posts onReceipt bodies to the routes of server/server.js.  A     *)
(* Bits transaction that useBits opened stays in panel.purchases, with the *)
(* photo the viewer started it on (started, a history field), until the    *)
(* platform completes it or the viewer cancels it.  An await of the script *)
(* is a point where other callbacks run: a completion handler is a Begin   *)
(* step (up to its POST) and an End step (after it).                       *)
(***************************************************************************)
MaxPurchases == 2     \* Bits transactions open at once
MaxReports == 2       \* requests the panel ever posts
MaxListeners == 2     \* click listeners stacked on #app by re-renders

PanelPhotos == {1, 2}
PanelSkus == {TIP_100, COMMENT_500}

\* the script that goes with the running build
PanelVersion == IF variant = "A" THEN "v1" ELSE "v2"

NoPending == [sku |-> None, photoId |-> Null, comment |-> FALSE]

\* the transaction useBits(sku) opens; started: the photo it was started on
Purchase(sku, started) == [sku |-> sku, started |-> started, by |-> "current_user"]

\* a transaction another instance of the extension opened for this viewer
Foreign(sku) == [sku |-> sku, started |-> Null, by |-> "other"]

\* a request of the panel; started: the photo of the purchase it reports
Report(route, sku, photoId, started) ==
  [route |-> route, sku |-> sku, photoId |-> photoId, started |-> started]

Without(s, i) == SubSeq(s, 1, i - 1) \o SubSeq(s, i + 1, Len(s))

Copies(x, n) == [k \in 1..n |-> x]

PanelInit == Init /\ variant \in {"A", "B"} /\ ~DEV

\* the browser runs the script: the let declarations at its top
PanelLoad ==
  /\ panel.version = None
  /\ panel' = [NoPanel EXCEPT !.version = PanelVersion]
  /\ UNCHANGED <<variant, DEV, handler, comment_unlocks, inflight, now, channels, photos, nextPhotoId, tips, comments, applied, last>>

\* the viewer dismisses the Bits dialog: neither script registers
\* onTransactionCancelled, so nothing of the panel changes
PanelCancel ==
  /\ \E i \in DOMAIN panel.purchases :
       panel' = [panel EXCEPT !.purchases = Without(panel.purchases, i)]
  /\ UNCHANGED <<variant, DEV, handler, comment_unlocks, inflight, now, channels, photos, nextPhotoId, tips, comments, applied, last>>

\* v1: click on a photo's badge
V1_openPhoto ==
  /\ panel.version = "v1"
  /\ \E p \in PanelPhotos :
       /\ panel.currentPhoto # p
       /\ panel' = [panel EXCEPT !.currentPhoto = p]
  /\ UNCHANGED <<variant, DEV, handler, comment_unlocks, inflight, now, channels, photos, nextPhotoId, tips, comments, applied, last>>

\* v1: click on a tip button: if (!currentPhoto) return; useBits(sku)
V1_TipClick ==
  /\ panel.version = "v1"
  /\ panel.currentPhoto # Null
  /\ Len(panel.purchases) < MaxPurchases
  /\ panel' = [panel EXCEPT
                 !.purchases = Append(@, Purchase(TIP_100, panel.currentPhoto))]
  /\ UNCHANGED <<variant, DEV, handler, comment_unlocks, inflight, now, channels, photos, nextPhotoId, tips, comments, applied, last>>

\* v1: click on the comment button with a message typed
V1_CommentClick ==
  /\ panel.version = "v1"
  /\ Len(panel.purchases) < MaxPurchases
  /\ panel' = [panel EXCEPT
                 !.pendingCommentMessage = TRUE,
                 !.purchases = Append(@, Purchase(COMMENT_500, panel.currentPhoto))]
  /\ UNCHANGED <<variant, DEV, handler, comment_unlocks, inflight, now, channels, photos, nextPhotoId, tips, comments, applied, last>>

\* v1: onTransactionComplete(tx) up to its POST; rest: the transactions
\* still open
V1_Complete(tx, rest) ==
  IF StartsWith(tx.sku, TIP_)
  THEN panel' = [panel EXCEPT
                   !.purchases = rest,
                   !.posting = Append(@, "transactions_complete"),
                   !.reports = Append(@, Report("transactions_complete", tx.sku,
                                                panel.currentPhoto, tx.started))]
  ELSE IF tx.sku = COMMENT_500 /\ panel.currentPhoto # Null
          /\ panel.pendingCommentMessage
  THEN panel' = [panel EXCEPT
                   !.purchases = rest,
                   !.posting = Append(@, "comment_with_purchase"),
                   !.reports = Append(@, Report("comment_with_purchase", tx.sku,
                                                panel.currentPhoto, tx.started))]
  ELSE panel' = [panel EXCEPT !.purchases = rest]

V1_TransactionCompleteBegin ==
  /\ panel.version = "v1"
  /\ Len(panel.reports) < MaxReports
  /\ \/ \E i \in DOMAIN panel.purchases :
          V1_Complete(panel.purchases[i], Without(panel.purchases, i))
     \/ \E k \in PanelSkus : V1_Complete(Foreign(k), panel.purchases)
  /\ UNCHANGED <<variant, DEV, handler, comment_unlocks, inflight, now, channels, photos, nextPhotoId, tips, comments, applied, last>>

\* v1: the POST of a completion handler returned
V1_TransactionCompleteEnd ==
  /\ panel.version = "v1"
  /\ \E j \in DOMAIN panel.posting :
       panel' = [panel EXCEPT
                   !.posting = Without(@, j),
                   !.pendingCommentMessage =
                      IF panel.posting[j] = "comment_with_purchase" THEN FALSE ELSE @]
  /\ UNCHANGED <<variant, DEV, handler, comment_unlocks, inflight, now, channels, photos, nextPhotoId, tips, comments, applied, last>>

\* v2: renderPhotos adds a click listener { once: true } to #app; it runs on
\* every onAuthorized and after every refresh()
V2_Render ==
  /\ panel.version = "v2"
  /\ panel.listeners < MaxListeners
  /\ panel' = [panel EXCEPT !.listeners = @ + 1]
  /\ UNCHANGED <<variant, DEV, handler, comment_unlocks, inflight, now, channels, photos, nextPhotoId, tips, comments, applied, last>>

\* v2: a click that is not on a button uses the listeners up
V2_ClickElsewhere ==
  /\ panel.version = "v2"
  /\ panel.listeners > 0
  /\ panel' = [panel EXCEPT !.listeners = 0]
  /\ UNCHANGED <<variant, DEV, handler, comment_unlocks, inflight, now, channels, photos, nextPhotoId, tips, comments, applied, last>>

\* v2: handleTip / handleComment, run once by each stacked listener.  how:
\* useBits opened the transaction (bits), useBits threw after pending was set
\* (threw), or the Bits API or the product is missing (none); in the last two
\* the fallback posts at once, and fallbackLike refreshes
V2_Click ==
  /\ panel.version = "v2"
  /\ panel.listeners > 0
  /\ \E pid \in PanelPhotos, sku \in PanelSkus, how \in {"bits", "threw", "none"} :
       LET n == panel.listeners
           route == IF sku = COMMENT_500 THEN "comment_with_purchase" ELSE "like"
           set == [sku |-> sku, photoId |-> pid, comment |-> (sku = COMMENT_500)]
       IN IF how = "bits"
          THEN /\ Len(panel.purchases) + n <= MaxPurchases
               /\ panel' = [panel EXCEPT
                    !.listeners = 0,
                    !.pending = set,
                    !.purchases = @ \o Copies(Purchase(sku, pid), n)]
          ELSE /\ Len(panel.reports) + n <= MaxReports
               /\ panel' = [panel EXCEPT
                    !.listeners = IF sku = COMMENT_500 THEN 0 ELSE n,
                    !.pending = IF how = "threw" THEN set ELSE @,
                    !.reports = @ \o Copies(Report(route, sku, pid, pid), n)]
  /\ UNCHANGED <<variant, DEV, handler, comment_unlocks, inflight, now, channels, photos, nextPhotoId, tips, comments, applied, last>>

\* v2: onTransactionComplete(tx) up to its POST: the body is built from
\* pending as it is now.  flat: tx carries a top-level sku
V2_Complete(tx, rest, flat) ==
  panel' = [panel EXCEPT
              !.purchases = rest,
              !.posting = Append(@, "transactions_complete"),
              !.reports = Append(@, Report("transactions_complete",
                                           IF flat THEN tx.sku ELSE panel.pending.sku,
                                           panel.pending.photoId, tx.started))]

V2_TransactionCompleteBegin ==
  /\ panel.version = "v2"
  /\ Len(panel.reports) < MaxReports
  /\ \E flat \in BOOLEAN :
       \/ \E i \in DOMAIN panel.purchases :
            V2_Complete(panel.purchases[i], Without(panel.purchases, i), flat)
       \/ \E k \in PanelSkus : V2_Complete(Foreign(k), panel.purchases, flat)
  /\ UNCHANGED <<variant, DEV, handler, comment_unlocks, inflight, now, channels, photos, nextPhotoId, tips, comments, applied, last>>

\* v2: finally { pending = {...}; refresh() } once the POST has returned
V2_TransactionCompleteEnd ==
  /\ panel.version = "v2"
  /\ \E j \in DOMAIN panel.posting :
       panel' = [panel EXCEPT
                   !.posting = Without(@, j),
                   !.pending = NoPending,
                   !.listeners = Min(@ + 1, MaxListeners)]
  /\ UNCHANGED <<variant, DEV, handler, comment_unlocks, inflight, now, channels, photos, nextPhotoId, tips, comments, applied, last>>

PanelNext ==
  \/ PanelLoad \/ PanelCancel
  \/ V1_openPhoto \/ V1_TipClick \/ V1_CommentClick
  \/ V1_TransactionCompleteBegin \/ V1_TransactionCompleteEnd
  \/ V2_Render \/ V2_ClickElsewhere \/ V2_Click
  \/ V2_TransactionCompleteBegin \/ V2_TransactionCompleteEnd

SpecPanel == PanelInit /\ [][PanelNext]_vars

(***************************************************************************)
(* The purchase handlers step by step.  An await of a handler is a point   *)
(* where the upstream platform decides when, and whether, the handler goes *)
(* on: the handler is a Begin step (checks, durable write, dispatch of the *)
(* publish, up to its first await) and one step per awaited upstream call  *)
(* of the chat announcement.  handler.waits names the call the handler     *)
(* awaits; handler.publish is the promise of sendPubSub, which part_000    *)
(* neither awaits nor catches.  status 0: no response has been written.    *)
(***************************************************************************)
LiveInit == Init /\ variant \in {"A", "B"} /\ ~DEV

Alive == handler.pc # "crashed"

\* res.status(s).json(...) before any write
Rejected(route, s) ==
  [NoHandler EXCEPT !.pc = "answered", !.route = route, !.status = s]

\* the durable write has committed and the handler awaits the call w
Awaits(route, ch, pub, w) ==
  [NoHandler EXCEPT !.pc = "announcing", !.route = route, !.channel = ch,
                    !.publish = pub, !.waits = w, !.wrote = TRUE]

\* res.json({ ok: true })
Answered(h) == [h EXCEPT !.pc = "answered", !.waits = None, !.status = 200]

\* part_000: what the announcement awaits after ensureValidChannelToken gave e
A_afterToken(e) ==
  IF e.has /\ e.row.access_token # NoTok THEN "lookup" ELSE "chat"

\* part_000: the first await of the announcement: refreshToken unless the
\* row is absent or fresh
A_firstWait(chans, ch) ==
  LET e == A_ensureValidChannelToken(chans, ch, CHOOSE rf \in TokenAnswers : rf.ok)
  IN IF e.calls = 1 THEN "refresh" ELSE A_afterToken(e)

\* server/server.js: getUserById is called when the row has a credential and
\* the session names a user
B_afterToken(e, user) ==
  IF e.row.access_token # NoTok /\ user # None THEN "lookup" ELSE "chat"

\* POST /api/transactions/complete of part_000, up to its first await
A_TipBegin ==
  /\ variant = "A" /\ Alive /\ handler.pc = "idle"
  /\ \E q \in A_TipRequests :
       LET a == A_requireAuth(q.h)
           userId == q.receipt.data.userId
           sku == A_skuOf(q.receipt.data)
       IN
       IF ~a.ok
       THEN /\ handler' = Rejected("transactions_complete", 401)
            /\ UNCHANGED <<photos, tips, applied>>
       ELSE IF ~A_verifyReceipt(q.receipt, now) \/ userId = None
                 \/ ~StartsWith(sku, TIP_) \/ q.photoId = 0
       THEN /\ handler' = Rejected("transactions_complete", 400)
            /\ UNCHANGED <<photos, tips, applied>>
       ELSE
         LET bits == A_tipBits(sku) IN
         /\ Recorded < MaxLedger
         /\ tips' = Append(tips, TipRow(a.channel_id, q.photoId, userId, bits))
         /\ photos' = A_AddTip(photos, q.photoId, a.channel_id, bits)
         /\ applied' = [applied EXCEPT ![q.receipt.data.transactionId] = @ + 1]
         /\ handler' = Awaits("transactions_complete", a.channel_id, "pending",
                              A_firstWait(channels, a.channel_id))
  /\ UNCHANGED <<variant, DEV, panel, comment_unlocks, inflight, now, channels, nextPhotoId, comments, last>>

\* POST /api/comment_with_purchase of part_000: res.json follows the
\* dispatch of the publish in the same turn
A_CommentBegin ==
  /\ variant = "A" /\ Alive /\ handler.pc = "idle"
  /\ \E q \in A_CommentRequests :
       LET a == A_requireAuth(q.h)
           receiptUserId == q.receipt.data.userId
           sku == A_skuOf(q.receipt.data)
       IN
       IF ~a.ok
       THEN /\ handler' = Rejected("comment_with_purchase", 401)
            /\ UNCHANGED <<comments, applied>>
       ELSE IF a.user_id = None
       THEN /\ handler' = Rejected("comment_with_purchase", 403)
            /\ UNCHANGED <<comments, applied>>
       ELSE IF \/ q.photoId = 0 \/ q.message = 0 \/ q.receipt.form = "empty"
               \/ ~A_verifyReceipt(q.receipt, now)
               \/ receiptUserId = None \/ receiptUserId # a.user_id
               \/ sku # COMMENT_500
       THEN /\ handler' = Rejected("comment_with_purchase", 400)
            /\ UNCHANGED <<comments, applied>>
       ELSE
         /\ Recorded < MaxLedger
         /\ comments' = Append(comments,
               CommentRow(a.channel_id, q.photoId, a.user_id, Min(q.message, SliceA)))
         /\ applied' = [applied EXCEPT ![q.receipt.data.transactionId] = @ + 1]
         /\ handler' = Answered(Awaits("comment_with_purchase", a.channel_id,
                                       "pending", None))
  /\ UNCHANGED <<variant, DEV, panel, comment_unlocks, inflight, now, channels, photos, nextPhotoId, tips, last>>

\* server/server.js: the handler after its UPDATE photos, up to the first
\* await of the announcement.  ensureValidChannelToken throws at once when
\* there is no row or no refresh token: the catch logs and res.json follows
B_Announcing(route, ch, user) ==
  LET e == B_ensureValidChannelToken(channels, ch, CHOOSE rf \in TokenAnswers : rf.ok)
      h == IF e.calls = 1 THEN Awaits(route, ch, None, "refresh")
           ELSE IF ~e.has THEN Answered(Awaits(route, ch, None, None))
           ELSE Awaits(route, ch, None, B_afterToken(e, user))
  IN [h EXCEPT !.user = user]

\* POST /api/transactions/complete of server/server.js with a TIP_ sku
B_TipBegin ==
  /\ variant = "B" /\ Alive /\ handler.pc = "idle"
  /\ \E q \in B_TipRequests :
       LET a == B_requireAuth(q.h) IN
       IF ~a.ok
       THEN /\ handler' = Rejected("transactions_complete", 401)
            /\ UNCHANGED <<photos, applied>>
       ELSE IF ~B_requireJson(q)
       THEN /\ handler' = Rejected("transactions_complete", 415)
            /\ UNCHANGED <<photos, applied>>
       ELSE IF ~StartsWith(q.sku, TIP_)
       THEN \* missing_sku, unknown_sku, or the comment purchase, whose INSERT
            \* throws (see B_TransactionsComplete)
            /\ handler' = Rejected("transactions_complete",
                                   IF q.sku = COMMENT_500 /\ q.photoId # 0 /\ q.comment # 0
                                   THEN 500 ELSE 400)
            /\ UNCHANGED <<photos, applied>>
       ELSE
         LET bits == B_tipBits(q.sku)
             upd == IF q.photoId # 0
                    THEN B_AddLike(photos, q.photoId, a.channel_id, bits)
                    ELSE photos
         IN
         /\ (upd # photos => Recorded < MaxLedger)
         /\ photos' = upd
         /\ applied' = IF upd # photos THEN [applied EXCEPT ![None] = @ + 1] ELSE applied
         /\ handler' = [B_Announcing("transactions_complete", a.channel_id, a.user_id)
                          EXCEPT !.wrote = (upd # photos)]
  /\ UNCHANGED <<variant, DEV, panel, comment_unlocks, inflight, now, channels, nextPhotoId, tips, comments, last>>

\* POST /api/like of server/server.js
B_LikeBegin ==
  /\ variant = "B" /\ Alive /\ handler.pc = "idle"
  /\ \E q \in B_LikeRequests :
       LET a == B_requireAuth(q.h) IN
       IF ~a.ok
       THEN /\ handler' = Rejected("like", 401)
            /\ UNCHANGED <<photos, applied>>
       ELSE IF ~B_requireJson(q)
       THEN /\ handler' = Rejected("like", 415)
            /\ UNCHANGED <<photos, applied>>
       ELSE IF ~DEV /\ ~IsStaff(RoleOr(a.role))
       THEN /\ handler' = Rejected("like", 403)
            /\ UNCHANGED <<photos, applied>>
       ELSE IF q.photoId = 0
       THEN /\ handler' = Rejected("like", 400)
            /\ UNCHANGED <<photos, applied>>
       ELSE
         LET upd == B_AddLike(photos, q.photoId, a.channel_id, q.bits) IN
         /\ (upd # photos => Recorded < MaxLedger)
         /\ photos' = upd
         /\ applied' = IF upd # photos THEN [applied EXCEPT ![None] = @ + 1] ELSE applied
         /\ handler' = [B_Announcing("like", a.channel_id, a.user_id)
                          EXCEPT !.wrote = (upd # photos)]
  /\ UNCHANGED <<variant, DEV, panel, comment_unlocks, inflight, now, channels, nextPhotoId, tips, comments, last>>

\* the token endpoint answers the refresh the announcement awaits
RefreshEnds ==
  /\ Alive /\ handler.pc = "announcing" /\ handler.waits = "refresh"
  /\ \E rf \in TokenAnswers :
       IF variant = "A"
       THEN LET e == A_ensureValidChannelToken(channels, handler.channel, rf) IN
            /\ channels' = e.chans
            /\ handler' = [handler EXCEPT !.waits = A_afterToken(e)]
       ELSE LET e == B_ensureValidChannelToken(channels, handler.channel, rf) IN
            /\ channels' = e.chans
            /\ handler' = IF ~e.has THEN Answered(handler)
                          ELSE [handler EXCEPT !.waits = B_afterToken(e, handler.user)]
  /\ UNCHANGED <<variant, DEV, panel, comment_unlocks, inflight, now, photos, nextPhotoId, tips, comments, applied, last>>

\* Helix answers getUserById.  part_000: a failure throws into the catch and
\* res.json follows; server/server.js: .catch(() => null)
LookupEnds ==
  /\ Alive /\ handler.pc = "announcing" /\ handler.waits = "lookup"
  /\ \E gu \in {"ok", "error"} :
       handler' = IF variant = "A" /\ gu = "error" THEN Answered(handler)
                  ELSE [handler EXCEPT !.waits = "chat"]
  /\ UNCHANGED <<variant, DEV, panel, comment_unlocks, inflight, now, channels, photos, nextPhotoId, tips, comments, applied, last>>

\* sendChatMessage returns or throws: res.json({ ok: true }) follows.  In
\* server/server.js it asks for the credential once more before it posts
ChatEnds ==
  /\ Alive /\ handler.pc = "announcing" /\ handler.waits = "chat"
  /\ handler' = Answered(handler)
  /\ IF variant = "B"
     THEN \E rf \in TokenAnswers :
            channels' = B_ensureValidChannelToken(channels, handler.channel, rf).chans
     ELSE UNCHANGED channels
  /\ UNCHANGED <<variant, DEV, panel, comment_unlocks, inflight, now, photos, nextPhotoId, tips, comments, applied, last>>

\* how the promise of sendPubSub can settle: the platform took the message,
\* refused it (logged), or the import or the fetch threw (rejected)
PublishOutcomes == {"delivered", "refused", "rejected"}

\* the promise of sendPubSub settles.  A rejection has no handler: the
\* runtime either logs a warning or ends the process (the default of Node 15
\* and later), whatever the handler was doing
PublishEnds ==
  /\ Alive /\ handler.publish = "pending"
  /\ \E o \in PublishOutcomes, fatal \in BOOLEAN :
       handler' = IF o = "rejected" /\ fatal
                  THEN [handler EXCEPT !.pc = "crashed", !.publish = o]
                  ELSE [handler EXCEPT !.publish = o]
  /\ UNCHANGED <<variant, DEV, panel, comment_unlocks, inflight, now, channels, photos, nextPhotoId, tips, comments, applied, last>>

\* the exchange is over; the server takes the next purchase
HandlerDone ==
  /\ handler.pc = "answered"
  /\ handler.publish # "pending"
  /\ handler' = NoHandler
  /\ UNCHANGED <<variant, DEV, panel, comment_unlocks, inflight, now, channels, photos, nextPhotoId, tips, comments, applied, last>>

\* the rest of the server runs while a purchase handler awaits
LiveNext ==
  \/ A_TipBegin \/ A_CommentBegin \/ B_TipBegin \/ B_LikeBegin
  \/ RefreshEnds \/ LookupEnds \/ ChatEnds \/ PublishEnds \/ HandlerDone
  \/ (Alive /\ (A_AuthCallback \/ B_AuthCallback \/ B_AdminAddPhoto \/ Respond \/ Tick))

\* the platform answers every call of the announcement; the publish may
\* settle late or never
SpecFanOut ==
  LiveInit /\ [][LiveNext]_vars
    /\ WF_vars(RefreshEnds) /\ WF_vars(LookupEnds) /\ WF_vars(ChatEnds)

\* the server runs what is ready; the calls of the announcement may never
\* be answered
SpecAnnounce ==
  LiveInit /\ [][LiveNext]_vars /\ WF_vars(PublishEnds) /\ WF_vars(HandlerDone)

(***************************************************************************)
(* Properties                                                              *)
(***************************************************************************)
PurchaseRoutes == {"transactions_complete", "comment_with_purchase"}
EntitlementRoutes == {"status", "photos"}
RoleGatedRoutes ==
  {"admin_add_photo", "admin_delete_photo", "admin_upload", "admin_delete_comment",
   "patch_comment"}

\* the transactions whose product is a tip, and what the platform charged
TipTx == {"t1", "t2", "t4"}
Price(tx) == CASE tx = "t1" -> 500 [] tx \in {"t2", "t4"} -> 100 [] OTHER -> 0

\* C1: however often a receipt is submitted, the tip ledger holds exactly one
\* row per tip transaction that was applied, and no transaction is applied twice
C1_IdempotentPurchase ==
  /\ \A t \in TipTx : applied[t] <= 1
  /\ Len(tips) = Cardinality({t \in TipTx : applied[t] > 0})

\* C2: a role-gated operation (add/delete photo, upload, moderation) is
\* performed only for a correctly signed, unexpired token that carries a staff
\* role
C2_RoleFromVerifiedToken ==
  (last.route \in RoleGatedRoutes /\ last.granted)
    => (last.cred \in {"valid", "scheme"} /\ IsStaff(last.role))

\* C3: a request through requireAuth whose credential is absent, malformed,
\* signed with the wrong secret, signed with another algorithm or expired is
\* answered 401 and changes no table (builds with requireAuth: A and B)
C3_UnauthenticatedIsRejected ==
  [][(/\ variant \in {"A", "B"}
      /\ Idle
      /\ last'.route \notin {"none", "auth_callback"}
      /\ last'.cred \in {"absent", "malformed", "badsig", "badalg", "expired"})
       => (last'.status = 401 /\ ~last'.granted /\ db' = db)]_vars

\* C3 witness: build B has photos and answers 401 to an expired staff token
C3_Witness ==
  /\ variant = "B"
  /\ photos # <<>>
  /\ last.route = "admin_delete_photo"
  /\ last.cred = "expired"
  /\ last.status = 401

\* C4: a status or photos request of a verified broadcaster or moderator is
\* answered as entitled, whatever the upstream says and with or without a
\* viewer id
C4_RoleBypass ==
  (last.route \in EntitlementRoutes /\ last.cred = "valid" /\ IsStaff(last.role))
    => (last.status = 200 /\ last.granted)

\* C5: a viewer without user_id is not entitled: status says false, photos
\* answers 403, and no upstream lookup is made
C5_IdentityRequired ==
  (/\ last.route \in EntitlementRoutes
   /\ last.cred = "valid"
   /\ last.role = "viewer"
   /\ last.user = None)
    => /\ ~last.granted
       /\ last.lookup = "none"
       /\ (last.route = "photos" => last.status = 403)

\* C6: GET /api/photos returns rows only to an entitled requester (subscriber
\* with shared identity, or staff); everyone else is refused
C6_ProtectedPhotos ==
  last.route = "photos"
    => IF last.granted
       THEN /\ last.status = 200
            /\ last.cred \in {"valid", "scheme"}
            /\ \/ IsStaff(last.role)
               \/ (last.user # None /\ last.lookup = "sub")
       ELSE last.status \in {401, 403}

\* C7: when the channel's credential cannot be obtained (no row, no refresh
\* token, refresh rejected) or the lookup fails, a viewer is not entitled and
\* the request is answered normally
C7_FailClosed ==
  (/\ last.route \in EntitlementRoutes
   /\ last.cred = "valid"
   /\ last.role = "viewer"
   /\ \/ last.store \in {"norow", "norefresh", "refreshfail", "stale"}
      \/ last.lookup = "error")
    => (~last.granted /\ last.status \in {200, 403})

\* C8: an authenticated purchase request whose receipt is missing, malformed or
\* wrongly signed is answered 400 and leaves tips, photos and comments as
\* they were
C8_ReceiptSignature ==
  [][(/\ Idle
      /\ last'.route \in PurchaseRoutes
      /\ last'.cred = "valid"
      /\ last'.receipt # "valid")
       => (last'.status = 400 /\ UNCHANGED <<tips, photos, comments>>)]_vars

\* C9: a verified receipt without userId, or whose userId is not the user_id
\* of the session presenting it, is answered 400 and applies nothing, on the
\* tip path and on the paid-comment path
C9_PayerCheck ==
  [][(/\ Idle
      /\ last'.route \in PurchaseRoutes
      /\ last'.cred = "valid"
      /\ last'.user # None
      /\ last'.receipt = "valid"
      /\ (last'.payer = None \/ last'.payer # last'.user))
       => (last'.status = 400 /\ UNCHANGED <<tips, photos, comments>>)]_vars

\* C10: a tip purchase that succeeds named a photo, appended one ledger row
\* of the product's amount and added that amount to that photo's total and to
\* no other (builds A and B)
C10_TipEffect ==
  [][(/\ Idle
      /\ variant \in {"A", "B"}
      /\ last'.route = "transactions_complete"
      /\ last'.status = 200)
       => /\ last'.photoId # 0
          /\ tips' = Append(tips, TipRow(last'.channel, last'.photoId, last'.payer,
                                         Price(last'.tx)))
          /\ DOMAIN photos' = DOMAIN photos
          /\ \A id \in DOMAIN photos :
               photos'[id].tip_bits_total =
                 photos[id].tip_bits_total
                   + (IF id = last'.photoId THEN Price(last'.tx) ELSE 0)]_vars

\* the bits of the tip ledger rows recorded for photo pid of channel ch
RECURSIVE LedgerBits(_, _, _)
LedgerBits(rows, pid, ch) ==
  IF rows = <<>> THEN 0
  ELSE (IF Head(rows).photo_id = pid /\ Head(rows).channel_id = ch
        THEN Head(rows).bits ELSE 0)
       + LedgerBits(Tail(rows), pid, ch)

\* C11: in the builds that serve the cited routes (A and B), every photo's
\* tip_bits_total is the sum of the bits of the tips rows recorded for that
\* photo and channel
C11_LedgerMatchesCounter ==
  variant \in {"A", "B"}
    => \A id \in DOMAIN photos :
         photos[id].tip_bits_total = LedgerBits(tips, id, photos[id].channel_id)

\* C12: a tip ledger row and the increment of its photo's tip_bits_total
\* appear in the same step: no row for an existing photo without the
\* increment, no increment (build A) without a row
C12_AtomicTip ==
  [][/\ (/\ Len(tips') > Len(tips)
         /\ tips'[Len(tips')].photo_id \in DOMAIN photos
         /\ photos[tips'[Len(tips')].photo_id].channel_id = tips'[Len(tips')].channel_id)
          => /\ tips'[Len(tips')].photo_id \in DOMAIN photos'
             /\ photos'[tips'[Len(tips')].photo_id].tip_bits_total =
                  photos[tips'[Len(tips')].photo_id].tip_bits_total
                    + tips'[Len(tips')].bits
     /\ (/\ variant = "A"
         /\ \E id \in DOMAIN photos \cap DOMAIN photos' :
              photos'[id].tip_bits_total # photos[id].tip_bits_total)
          => Len(tips') > Len(tips)]_vars

\* C13: a purchase completion that names a product other than a tip or the
\* paid comment is answered 400 and changes no photo, tips row or comment
C13_UnknownProduct ==
  [][(/\ Idle
      /\ last'.route = "transactions_complete"
      /\ last'.product = "other"
      /\ (variant = "C" \/ last'.cred = "valid")
      /\ (variant = "A" => last'.receipt = "valid"))
       => (last'.status = 400 /\ UNCHANGED <<photos, tips, comments>>)]_vars

\* C14: in builds A and B a comment row appears only as the effect of a
\* verified COMMENT_500 purchase with text; its text is bounded, its author is
\* the payer of the receipt and a paid-unlock entry is recorded with it; a
\* COMMENT_500 request without text is answered 400 and stores nothing
C14_PaidComment ==
  [][/\ (variant \in {"A", "B"} /\ Len(comments') > Len(comments))
          => /\ last'.product = "comment"
             /\ last'.receipt = "valid"
             /\ last'.text
             /\ comments'[Len(comments')].len \in 1 .. SliceA
             /\ comments'[Len(comments')].user_id = last'.payer
             /\ Len(comment_unlocks') = Len(comment_unlocks) + 1
     /\ (/\ variant \in {"A", "B"}
         /\ Idle
         /\ last'.route \in PurchaseRoutes
         /\ last'.cred = "valid"
         /\ last'.user # None
         /\ last'.product = "comment"
         /\ ~last'.text)
          => (last'.status = 400 /\ UNCHANGED <<comments, comment_unlocks>>)]_vars

(***************************************************************************)
(* The delegated token store (SpecTok)                                     *)
(***************************************************************************)
\* caller c enters ensureValidChannelToken in this step
Began(c) == inflight[c].pc = "idle" /\ inflight'[c].pc # "idle"

\* ensureValidChannelToken returns to caller c, or throws, in this step
Ended(c) == inflight[c].pc # "done" /\ inflight'[c].pc = "done"

\* the step returns the stored row as it is, without a refresh or a write
FastPath(c, row) ==
  /\ inflight'[c].pc = "done"
  /\ inflight'[c].has
  /\ inflight'[c].ret = row
  /\ inflight'[c].calls = 0
  /\ channels' = channels

\* C15 as stated: a call that finds a stored credential with
\* now < expires_at returns the stored row unmodified, starts no refresh
\* and writes nothing.
C15_FastPathBeforeExpiry ==
  [][\A c \in Callers :
       LET ch == inflight'[c].channel
           row == GetRow(channels, ch)
       IN (Began(c) /\ HasRow(channels, ch) /\ row.expires_at # Null
           /\ now < row.expires_at)
          => FastPath(c, row)]_vars

\* C15 amended: a call that finds a stored credential outside the build's
\* refresh margin (server/server.js: now < expires_at; twitch.js:
\* now + 60 < expires_at) returns the stored row unmodified, starts no
\* refresh and writes nothing.
C15_FastPathOutsideMargin ==
  [][\A c \in Callers :
       LET ch == inflight'[c].channel
           row == GetRow(channels, ch)
       IN (Began(c) /\ HasRow(channels, ch) /\ row.expires_at # Null
           /\ \/ variant = "B" /\ now < row.expires_at
              \/ variant = "A" /\ now + RefreshSkewA < row.expires_at)
          => FastPath(c, row)]_vars

\* a call has just returned the stored, unexpired row from the fast path
C15_Witness ==
  \E c \in Callers :
    /\ inflight[c].pc = "done" /\ inflight[c].out = "fresh"
    /\ inflight[c].has /\ inflight[c].calls = 0
    /\ ~inflight[c].expired
    /\ inflight[c].ret = GetRow(channels, inflight[c].channel)

\* C16: a call that found an expired credential with a refresh token makes
\* exactly one refresh call, and when the platform answers it the call
\* persists the new row and returns it with expires_at later than the time
\* of the return, whatever lifetime the answer announces.
C16_RefreshOnExpiry ==
  \A c \in Callers :
    (inflight[c].pc = "done" /\ inflight[c].read # NoRow /\ inflight[c].expired
     /\ inflight[c].read.refresh_token # None)
    => /\ inflight[c].calls = 1
       /\ inflight[c].out = "refreshed"
          => /\ inflight[c].has
             /\ inflight[c].ret = GetRow(channels, inflight[c].channel)
             /\ inflight[c].ret.expires_at # Null
             /\ inflight[c].ret.expires_at > inflight[c].at

\* C17: a call that finds no row, an expired row without a refresh token, or
\* whose refresh the platform rejects, fails (it hands no credential to its
\* caller) and leaves the table as it was.
C17_NoCredential ==
  [][\A c \in Callers :
       (Ended(c)
        /\ \/ inflight'[c].out \in {"norow", "refreshfail"}
           \/ inflight'[c].out \in {"norefresh", "stale"} /\ inflight'[c].expired)
       => (~inflight'[c].has /\ channels' = channels)]_vars

\* C18: the token table never holds two rows of one channel; a write for a
\* channel that has a row keeps the number of rows, a write for a channel
\* without one adds exactly one.
C18_OneRowPerChannel ==
  [][/\ \A ch \in TokChannels : Cardinality(RowIndexes(channels', ch)) <= 1
     /\ Len(channels') - Len(channels) =
          Cardinality({ch \in TokChannels :
                         HasRow(channels', ch) /\ ~HasRow(channels, ch)})]_vars

\* a row that a call read has since been overwritten, and the table still
\* holds one row
C18_Witness ==
  /\ Len(channels) = 1
  /\ \E c \in Callers :
       /\ inflight[c].pc = "refreshing"
       /\ inflight[c].read # GetRow(channels, inflight[c].channel)

\* the access token and the expiry of a row come from one write
OneWrite(row) ==
  LET at == row.access_token IN
  /\ at # NoTok
  /\ IF variant = "A"
     THEN row.expires_at \in {Null, at.exp}
     ELSE row.expires_at + SafetyMarginB - at.iat \in {at.exp - at.iat, DefaultTtlB}

\* C19: with calls interleaving freely, every change of a channel's row puts
\* in place the whole triple of one write (a refresh that ends in this step,
\* or an authorization), every stored row pairs an access token with the
\* expiry written with it, and when a refresh ends the row is the triple
\* that refresh wrote.
C19_ConcurrentRefresh ==
  [][/\ \A ch \in TokChannels :
          GetRow(channels', ch) # GetRow(channels, ch)
          => \/ \E c \in Callers :
                  /\ Ended(c) /\ inflight'[c].channel = ch
                  /\ inflight'[c].out = "refreshed"
                  /\ GetRow(channels', ch) = inflight'[c].wrote
             \/ /\ last.route = "none" /\ last'.route = "auth_callback"
                /\ last'.status = 200
                /\ GetRow(channels', ch).access_token.iat = now
     /\ \A i \in DOMAIN channels' : OneWrite(channels'[i])
     /\ \A c \in Callers :
          (Ended(c) /\ inflight'[c].out = "refreshed")
          => /\ GetRow(channels', inflight'[c].channel) = inflight'[c].wrote
             /\ inflight'[c].ret = inflight'[c].wrote
             /\ OneWrite(inflight'[c].wrote)]_vars

\* two calls found the same expired row; one has written its refresh while
\* the other still awaits its answer
C19_Witness ==
  \E c \in Callers, d \in Callers :
    /\ c # d
    /\ inflight[c].pc = "done" /\ inflight[c].out = "refreshed"
    /\ inflight[d].pc = "refreshing"
    /\ inflight[d].channel = inflight[c].channel
    /\ inflight[d].read = inflight[c].read
    /\ inflight[c].expired
    /\ GetRow(channels, inflight[c].channel) = inflight[c].wrote
    /\ GetRow(channels, inflight[c].channel) # inflight[c].read

\* C20: an applied purchase (a tip or a paid comment answered 200) has
\* published an event naming what changed to the channel's broadcast topic,
\* and a purchase that was rejected has published nothing.
C20_FanOut ==
  (variant \in {"A", "B"} /\ last.route \in PurchaseRoutes)
  => /\ (last.status = 200 /\ last.granted) => last.pub \in {"tip_update", "new_comment"}
     /\ last.status # 200 => last.pub = "none"

C22_ModerationGate ==
  [][(Idle /\ variant \in {"A", "B"}
      /\ last'.route \in {"patch_comment", "admin_delete_comment"}
      /\ last'.cred = "valid" /\ last'.role # "broadcaster")
     => (last'.status = 403 /\ comments' = comments)]_vars

\* C23: no response carries an access or refresh token, the decoded
\* contents of a receipt, or the message of an internal error.
C23_NoSecretInResponse ==
  last.route # "none" => last.body = "plain"

\* C24: no request lowers a photo's tip_bits_total or likes_count, whatever
\* bits value or SKU string the client sends.
C24_CountersMonotone ==
  [][\A id \in DOMAIN photos \cap DOMAIN photos' :
       /\ photos'[id].tip_bits_total >= photos[id].tip_bits_total
       /\ photos'[id].likes_count >= photos[id].likes_count]_vars

\* C25: every stored expires_at is the time of the write plus the lifetime
\* the platform reported minus a positive margin: it lies strictly before
\* the time the platform stops accepting the access token stored with it.
C25_SafetyMargin ==
  \A i \in DOMAIN channels :
    /\ channels[i].expires_at # Null
    /\ channels[i].expires_at < channels[i].access_token.exp

\* C28: a call of ensureValidChannelToken whose refresh exchange fails has
\* tried the exchange a second time before it fails.
C28_RefreshRetriedOnce ==
  \A c \in Callers :
    (inflight[c].pc = "done" /\ inflight[c].out \in {"refreshfail", "stale"})
    => inflight[c].calls = 2

\* the rows of a table that belong to another channel than ch
ForeignRows(tbl, ch) ==
  LET Other(row) == row.channel_id # ch IN SelectSeq(tbl, Other)

\* the step serves a request and leaves every other channel's rows alone
RequestIsolated ==
  (Idle /\ last'.route \notin {"none", "auth_callback"})
  => LET ch == last'.channel IN
     /\ \A id \in DOMAIN photos :
          photos[id].channel_id # ch
          => (id \in DOMAIN photos' /\ photos'[id] = photos[id])
     /\ \A id \in DOMAIN photos' \ DOMAIN photos : photos'[id].channel_id = ch
     /\ ForeignRows(tips', ch) = ForeignRows(tips, ch)
     /\ ForeignRows(comments', ch) = ForeignRows(comments, ch)

\* C29: a request changes, deletes and adds only rows whose channel_id is
\* the channel of its session credential: the photos, tips and comments of
\* every other channel are as they were.
C29_ChannelIsolation == [][RequestIsolated]_vars

(***************************************************************************)
(* The panel                                                               *)
(***************************************************************************)
\* C30: every request the panel posts for a completed Bits transaction names
\* the photo on which the viewer started that purchase, whatever was opened,
\* clicked or bought in between, and names no photo when the completion
\* belongs to no purchase of the panel.
C30_TipAttribution ==
  \A i \in DOMAIN panel.reports : panel.reports[i].photoId = panel.reports[i].started

(***************************************************************************)
(* Responses of the purchase handlers                                      *)
(***************************************************************************)
\* C26: once a purchase handler has committed its write and dispatched the
\* publish, it answers 200 whatever becomes of the publish: delivered,
\* refused, thrown, or never settled.
C26_NonBlockingFanOut ==
  (handler.wrote /\ handler.publish = "pending") ~> (handler.status = 200)

\* C27: once the write of a tip has committed, the handler answers 200 even
\* if the refresh, the user lookup or the chat send of the announcement is
\* never answered.
C27_AnnouncementDoesNotGate ==
  (handler.wrote /\ handler.pc = "announcing") ~> (handler.status = 200)

====
